---- MODULE Spec2Model ----
(***************************************************************************)
(* A model of mybar's configuration-language processor (parse_conf.py):    *)
(* the Lexer, the recursive-descent Parser, the Interpreter and the        *)
(* DictConverter / ConfigFileMaker serializer; and of its Field            *)
(* (field.py): construction, _check_bar, run and run_threaded.             *)
(*                                                                         *)
(* Text is a sequence of one-character strings.  Python values, tokens and *)
(* AST nodes are records tagged by a field "t" (values, nodes) or "kind"   *)
(* (tokens).  An ordered dict is a sequence of <<key, value>> pairs.       *)
(*                                                                         *)
(* The characters are those of Latin-1, the white space of Unicode and the *)
(* long s.  One that a TLA+ string cannot hold is named by its code point  *)
(* in hexadecimal between angle brackets: "<0b>" is the vertical tab.      *)
(***************************************************************************)
EXTENDS Integers, Sequences, FiniteSets, TLC

(***************************************************************************)
(* Characters and small helpers                                            *)
(***************************************************************************)
\* The escape that repr writes for the character of code point n when
\* it is not printable: \xNN below 256, \uNNNN from there on.
Escape(n) ==
    LET Hex(d) == <<"0","1","2","3","4","5","6","7",
                    "8","9","a","b","c","d","e","f">>[d + 1]
    IN  IF n < 256 THEN <<"\\", "x", Hex(n \div 16), Hex(n % 16)>>
        ELSE <<"\\", "u", Hex(n \div 4096), Hex((n \div 256) % 16),
               Hex((n \div 16) % 16), Hex(n % 16)>>

\* The character of code point n, for one that is named.
CharOf(n) ==
    LET e == Escape(n)
    IN  IF n < 256 THEN "<" \o e[3] \o e[4] \o ">"
        ELSE "<" \o e[3] \o e[4] \o e[5] \o e[6] \o ">"

Digits == {"0","1","2","3","4","5","6","7","8","9"}

\* The grave accent cannot be written in a TLA+ string; this stands for it.
Backtick == "<grave>"

\* The three quote characters of the STRING rule.
QuoteChars == {"\"", "'", Backtick}

\* The character NEWLINE of the source.
NEWLINE == "\n"

\* Whitespace other than the newline: what [^\n\S] matches.  These are
\* the tab, the vertical tab, the form feed, the carriage return, the
\* four separators 1c to 1f, the space, the next line, the no-break space
\* and the spaces of Unicode from U+1680 to U+3000.
SpaceChars ==
    {" ", "\t", "\r", "\f"}
    \cup {CharOf(n) : n \in {11, 28, 29, 30, 31, 133, 160, 5760}
                           \cup (8192..8202)
                           \cup {8232, 8233, 8239, 8287, 12288}}

IdentChars ==
    {"a","b","c","d","e","f","g","h","i","j","k","l","m",
     "n","o","p","q","r","s","t","u","v","w","x","y","z",
     "A","B","C","D","E","F","G","H","I","J","K","L","M",
     "N","O","P","Q","R","S","T","U","V","W","X","Y","Z", "_"}

\* The letter a character is compared as under re.IGNORECASE, for the
\* letters of the boolean spellings (the only ones the IGNORECASE rules
\* compare): the capital, and the long s (U+017F) for s.
Lower(c) ==
    CASE c = "T" -> "t" [] c = "R" -> "r" [] c = "U" -> "u" [] c = "E" -> "e"
      [] c = "Y" -> "y" [] c = "S" -> "s" [] c = "F" -> "f" [] c = "A" -> "a"
      [] c = "L" -> "l" [] c = "N" -> "n" [] c = "O" -> "o"
      [] c = CharOf(383) -> "s"
      [] OTHER -> c

DigitVal(c) ==
    CASE c = "0" -> 0 [] c = "1" -> 1 [] c = "2" -> 2 [] c = "3" -> 3
      [] c = "4" -> 4 [] c = "5" -> 5 [] c = "6" -> 6 [] c = "7" -> 7
      [] c = "8" -> 8 [] c = "9" -> 9

DigitChar(n) == <<"0","1","2","3","4","5","6","7","8","9">>[n + 1]

\* The text made of the characters of the TLA+ sequence of pieces ps.
RECURSIVE Concat(_)
Concat(ps) == IF ps = <<>> THEN <<>> ELSE Head(ps) \o Concat(Tail(ps))

\* The number of consecutive characters of s, from index i on, that are in cs.
RECURSIVE RunLen(_, _, _)
RunLen(s, i, cs) ==
    IF i > Len(s) \/ s[i] \notin cs THEN 0 ELSE 1 + RunLen(s, i + 1, cs)

\* The number of consecutive characters of s, from index i on, not in cs.
RECURSIVE RunLenNot(_, _, _)
RunLenNot(s, i, cs) ==
    IF i > Len(s) \/ s[i] \in cs THEN 0 ELSE 1 + RunLenNot(s, i + 1, cs)

\* Whether the text w occurs in s at index i.
StartsAt(s, i, w) ==
    /\ i + Len(w) - 1 <= Len(s)
    /\ \A k \in 1..Len(w) : s[i + k - 1] = w[k]

\* A match that tells the letter cases apart: what the boolean rules would
\* do without re.IGNORECASE.
StartsAtSameCase(s, i, w) == StartsAt(s, i, w)

\* Whether w occurs in s at index i, letter case ignored (re.IGNORECASE).
StartsAtNoCase(s, i, w) ==
    /\ i + Len(w) - 1 <= Len(s)
    /\ \A k \in 1..Len(w) : Lower(s[i + k - 1]) = w[k]

\* str.strip(chars): s without its leading and trailing characters in cs.
RECURSIVE RStrip(_, _)
RStrip(s, cs) ==
    IF s # <<>> /\ s[Len(s)] \in cs THEN RStrip(SubSeq(s, 1, Len(s) - 1), cs)
    ELSE s

Strip(s, cs) ==
    LET r == RStrip(s, cs)
        n == RunLen(r, 1, cs)
    IN  SubSeq(r, n + 1, Len(r))

\* The set of the elements of a sequence.
Range(f) == {f[i] : i \in DOMAIN f}

(***************************************************************************)
(* Lexer                                                                   *)
(***************************************************************************)

\* Token.__init__: a token built at the lexer's position (cursor, line, col).
Token(kind, value, cursor, lineno, colno, match) ==
    [kind |-> kind, value |-> value, cursor |-> cursor,
     lineno |-> lineno, colno |-> colno, match |-> match]

\* The first index p >= i of s where the quote marker sc occurs with no
\* newline in s[i..p-1]; 0 when there is none.  This is where the lazy
\* body of the STRING rule stops: '.' does not match a newline.
RECURSIVE FindClose(_, _, _)
FindClose(s, i, sc) ==
    IF i > Len(s) THEN 0
    ELSE IF StartsAt(s, i, sc) THEN i
    ELSE IF s[i] = NEWLINE THEN 0
    ELSE FindClose(s, i + 1, sc)

\* The STRING rule at index i: [len, sc], len = 0 when it does not match.
\* The opening marker is three quote characters when a matching closing
\* marker follows, and one quote character otherwise.
MatchString(s, i) ==
    IF i > Len(s) \/ s[i] \notin QuoteChars THEN [len |-> 0, sc |-> <<>>]
    ELSE
      LET three == /\ i + 2 <= Len(s)
                   /\ s[i + 1] \in QuoteChars
                   /\ s[i + 2] \in QuoteChars
          sc3 == SubSeq(s, i, i + 2)
          p3  == IF three THEN FindClose(s, i + 3, sc3) ELSE 0
          p1  == FindClose(s, i + 1, <<s[i]>>)
      IN  IF p3 # 0 THEN [len |-> p3 + 3 - i, sc |-> sc3]
          ELSE IF p1 # 0 THEN [len |-> p1 + 1 - i, sc |-> <<s[i]>>]
          ELSE [len |-> 0, sc |-> <<>>]

\* The FLOAT rule \d*\.\d[\d_]* at index i: the length matched, or 0.
MatchFloat(s, i) ==
    LET nd == RunLen(s, i, Digits)
        j  == i + nd
    IN  IF j + 1 <= Len(s) /\ s[j] = "." /\ s[j + 1] \in Digits
        THEN nd + 2 + RunLen(s, j + 2, Digits \cup {"_"})
        ELSE 0

\* The boolean rules ^(true|yes) and ^(false|no), case ignored.
MatchTrue(s, i) ==
    IF StartsAtNoCase(s, i, <<"t","r","u","e">>) THEN 4
    ELSE IF StartsAtNoCase(s, i, <<"y","e","s">>) THEN 3
    ELSE 0

MatchFalse(s, i) ==
    IF StartsAtNoCase(s, i, <<"f","a","l","s","e">>) THEN 5
    ELSE IF StartsAtNoCase(s, i, <<"n","o">>) THEN 2
    ELSE 0

\* The one-character rules: operators and syntax.
PunctKind(c) ==
    CASE c = "=" -> "ASSIGN"
      [] c = "." -> "ATTRIBUTE"
      [] c = "," -> "COMMA"
      [] c = "(" -> "L_PAREN"
      [] c = ")" -> "R_PAREN"
      [] c = "[" -> "L_BRACKET"
      [] c = "]" -> "R_BRACKET"
      [] c = "{" -> "L_CURLY_BRACE"
      [] c = "}" -> "R_CURLY_BRACE"
      [] OTHER -> "NONE"

\* A comment that takes the end of its line with it: what the COMMENT rule
\* would match if "." matched the newline that ends the line.
MatchCommentWithNewline(s, i) ==
    LET n == RunLenNot(s, i, {NEWLINE})
    IN  IF i + n <= Len(s) THEN n + 1 ELSE n

\* The COMMENT rule ^\#.*(?=\n*) at a "#": the length of the match, which
\* runs up to the newline that ends the line, or to the end of the text.
MatchComment(s, i) == RunLenNot(s, i, {NEWLINE})

\* Lexer._rules tried in order at index i; the first rule that matches
\* wins.  [kind, len, sc]; kind "NONE" when no rule matches.
MatchRules(s, i) ==
    LET str == MatchString(s, i)
        flt == MatchFloat(s, i)
        int == RunLen(s, i, Digits)
        c   == s[i]
    IN  IF str.len > 0 THEN [kind |-> "STRING", len |-> str.len, sc |-> str.sc]
        ELSE IF flt > 0 THEN [kind |-> "FLOAT", len |-> flt, sc |-> <<>>]
        ELSE IF int > 0 THEN [kind |-> "INTEGER", len |-> int, sc |-> <<>>]
        ELSE IF c = "#"
          THEN [kind |-> "COMMENT", len |-> MatchComment(s, i), sc |-> <<>>]
        ELSE IF c = NEWLINE
          THEN [kind |-> "NEWLINE", len |-> RunLen(s, i, {NEWLINE}), sc |-> <<>>]
        ELSE IF c \in SpaceChars
          THEN [kind |-> "SPACE", len |-> RunLen(s, i, SpaceChars), sc |-> <<>>]
        ELSE IF PunctKind(c) # "NONE"
          THEN [kind |-> PunctKind(c), len |-> 1, sc |-> <<>>]
        ELSE IF MatchTrue(s, i) > 0
          THEN [kind |-> "TRUE", len |-> MatchTrue(s, i), sc |-> <<>>]
        ELSE IF MatchFalse(s, i) > 0
          THEN [kind |-> "FALSE", len |-> MatchFalse(s, i), sc |-> <<>>]
        ELSE IF c \in IdentChars
          THEN [kind |-> "IDENTIFIER", len |-> RunLen(s, i, IdentChars), sc |-> <<>>]
        ELSE [kind |-> "NONE", len |-> 0, sc |-> <<>>]

\* Lexer.__init__: the cursor and position counters and the token stack.
PyNone == [t |-> "none"]

NewLexer ==
    [cursor |-> 0, lineno |-> 1, colno |-> 1, stack |-> <<>>, lines |-> PyNone]

\* The text self._lines was split from, for a lexer that reads s: the text
\* the lexer was made on.  lx.lines is PyNone as long as that is s itself;
\* lex(string) replaces the text read and leaves the lines.
LinesOf(s, lx) == IF lx.lines = PyNone THEN s ELSE lx.lines.s

\* len(self._lines): the number of lines of s.split('\n').
NumLines(s) == 1 + Cardinality({i \in DOMAIN s : s[i] = NEWLINE})

\* Lexer.reset: the cursor and the column go back to the start; the line
\* number and the token stack are left as they are.
Reset(lx) == [lx EXCEPT !.cursor = 0, !.colno = 1]

IgnoredKinds == {"COMMENT", "SPACE", "NEWLINE"}

\* Lexer.get_token on the text s in lexer state lx:
\* [tok, lx, ok].  ok = FALSE is the lexical error (tok is the UNKNOWN
\* token it is raised with).
RECURSIVE get_token(_, _)
RECURSIVE LookAhead(_, _)

\* Lexer.SPEECH_CHARS: the quote markers.
SPEECH_CHARS ==
    {<<"\"">>, <<"'">>, <<Backtick>>, <<"\"", "\"", "\"">>, <<"'", "'", "'">>}

\* The message of a lexical error: the test `bad_token in SPEECH_CHARS`
\* compares the Token itself with the markers.  tok == c for a Token and
\* a str: Token defines no __eq__, so the comparison is that of object and
\* holds for no string.
LexErrorMessage(bad_token) ==
    LET TokenEqualsStr(tok, c) == FALSE
    IN  IF \E c \in SPEECH_CHARS : TokenEqualsStr(bad_token, c)
        THEN "Unmatched quote"
        ELSE "Unexpected token"

\* A look-ahead that stops at the very next token, ignorable or not: what
\* the string case would do without its loop.
LookAheadNoSkip(s, lx) == get_token(s, lx)

\* The look-ahead loop of the string case: get_token until a token that is
\* neither SPACE, COMMENT nor NEWLINE.
LookAhead(s, lx) ==
    LET Skip(r) ==
            IF r.ok /\ r.tok.kind \in IgnoredKinds THEN LookAhead(s, r.lx) ELSE r
    IN  Skip(get_token(s, lx))

\* A lexer that counts no lines: what get_token would do without its case
\* for NEWLINE.
MovedOnOneLine(lx, m) ==
    [lx EXCEPT !.cursor = lx.cursor + m.len, !.colno = lx.colno + m.len]

\* The lexer moved past the match m: cursor and column go on by its length;
\* a NEWLINE adds its length to the line number and sets the column to 1.
Moved(lx, m) ==
    [lx EXCEPT
       !.cursor = lx.cursor + m.len,
       !.colno  = IF m.kind = "NEWLINE" THEN 1 ELSE lx.colno + m.len,
       !.lineno = IF m.kind = "NEWLINE" THEN lx.lineno + m.len ELSE lx.lineno]

get_token(s, lx) ==
    IF lx.stack # <<>>
    THEN \* LifoQueue.get(): the token put last
         [tok |-> lx.stack[Len(lx.stack)],
          lx  |-> [lx EXCEPT !.stack = SubSeq(lx.stack, 1, Len(lx.stack) - 1)],
          ok  |-> TRUE]
    ELSE IF lx.cursor >= Len(s)
    THEN [tok |-> Token("EOF", <<>>, lx.cursor, lx.lineno, lx.colno, <<>>),
          lx |-> lx, ok |-> TRUE]
    ELSE
      LET i == lx.cursor + 1
          \* the string case once the next significant token is known
          Concatenated(stripped, nxt) ==
              IF ~nxt.ok THEN nxt
              ELSE IF nxt.tok.kind = "STRING"
              THEN [tok |-> [stripped EXCEPT
                               !.value = stripped.value \o nxt.tok.value],
                    lx |-> nxt.lx, ok |-> TRUE]
              ELSE [tok |-> stripped,
                    lx |-> [nxt.lx EXCEPT
                              !.stack = Append(nxt.lx.stack, nxt.tok)],
                    ok |-> TRUE]
          \* the token of the rule m that matched, the lexer moved past it
          Matched(m, text, lx1) ==
              IF m.kind # "STRING"
              THEN [tok |-> Token(m.kind, text, lx.cursor, lx.lineno, lx.colno, text),
                    lx |-> lx1, ok |-> TRUE]
              ELSE Concatenated(
                     Token(m.kind, Strip(text, Range(m.sc)),
                           lx.cursor, lx.lineno, lx.colno, text),
                     LookAhead(s, lx1))
          \* with_highlighting reads the line of the bad token first:
          \* IndexError when the line number is beyond the lines; else the
          \* TokenError is made, caught and StackTraceSilencer raised.
          Bad(bad_token) ==
              [tok |-> bad_token, lx |-> lx, ok |-> FALSE,
               msg |-> LexErrorMessage(bad_token),
               exc |-> IF bad_token.lineno > NumLines(LinesOf(s, lx))
                       THEN "IndexError" ELSE "StackTraceSilencer"]
          Lexed(m) ==
              IF m.kind = "NONE"
              THEN Bad(Token("UNKNOWN",
                             SubSeq(s, i, i - 1 + RunLenNot(s, i, SpaceChars \cup {NEWLINE})),
                             lx.cursor, lx.lineno, lx.colno, <<>>))
              ELSE Matched(m, SubSeq(s, i, i + m.len - 1), Moved(lx, m))
      IN  Lexed(MatchRules(s, i))

\* Lexer.lex from lexer state lx: every token up to EOF (EOF left out);
\* [ok |-> TRUE, toks, lx], or [ok |-> FALSE, tok, lx] with the UNKNOWN
\* token of the lexical error.
RECURSIVE LexLoop(_, _, _)
LexLoop(s, lx, acc) ==
    LET Got(r) ==
            IF ~r.ok THEN [ok |-> FALSE, tok |-> r.tok, lx |-> r.lx,
                           msg |-> r.msg, exc |-> r.exc]
            ELSE IF r.tok.kind = "EOF"
            THEN [ok |-> TRUE, toks |-> acc, lx |-> Reset(r.lx)]
            ELSE LexLoop(s, r.lx, Append(acc, r.tok))
    IN  Got(get_token(s, lx))

lex(s, lx) == LexLoop(s, lx, <<>>)

(***************************************************************************)
(* TokenError.with_highlighting                                            *)
(***************************************************************************)
\* Python's whitespace, what str.strip() and str.split() take away.
Whitespace == SpaceChars \cup {NEWLINE}

\* Lexer.get_line: line number lineno (1-based) of s.split('\n').
RECURSIVE get_line(_, _)
get_line(s, lineno) ==
    LET n == RunLenNot(s, 1, {NEWLINE})
    IN  IF lineno <= 1 THEN SubSeq(s, 1, n)
        ELSE get_line(SubSeq(s, n + 2, Len(s)), lineno - 1)

\* The text a token is underlined for: the quoted text as matched for a
\* STRING, the value otherwise.
HighlightText(tok) == IF tok.kind = "STRING" THEN tok.match ELSE tok.value

\* The carets of several tokens: those of all_toks whose cursor lies in
\* [start, end], up to the first NEWLINE.
RECURSIVE CaretsBetween(_, _, _)
CaretsBetween(all_toks, start, end) ==
    IF all_toks = <<>> THEN 0
    ELSE LET t == Head(all_toks)
         IN  IF ~(start <= t.cursor /\ t.cursor <= end)
             THEN CaretsBetween(Tail(all_toks), start, end)
             ELSE IF t.kind = "NEWLINE" THEN 0
             ELSE Len(HighlightText(t)) + CaretsBetween(Tail(all_toks), start, end)

\* The error built for one token: line and column of the leader, the
\* displayed line (leading whitespace stripped), the spaces before the
\* carets and the number of carets.  IndexError when the token's line
\* number is beyond the lines of the text.
Highlighted(s, msg, toks, carets) ==
    LET token == toks[1]
    IN  IF token.lineno > NumLines(s) THEN [st |-> "crash", exc |-> "IndexError"]
        ELSE LET line   == RStrip(get_line(s, token.lineno), Whitespace)
                 offset == RunLen(line, 1, Whitespace)
                 pad    == token.colno - offset - 1
             IN  [st |-> "error", msg |-> msg, toks |-> toks,
                  line |-> SubSeq(line, offset + 1, Len(line)),
                  pad |-> IF pad < 0 THEN 0 ELSE pad,
                  carets |-> carets]

\* with_highlighting(tokens, msg) called while the lexer is in state lx:
\* [exc, lx], the exception that leaves the call and the state the lexer
\* is left in.  For several tokens the lexer is reset and the text is
\* lexed again, which leaves the lexer where that pass ended; a lexical
\* error met on the way leaves the call in place of the error asked for
\* (StackTraceSilencer, a SystemExit), and the lexer stands where it met
\* the token.
with_highlighting(s, lx, toks, msg) ==
    IF Len(toks) = 1
    THEN [exc |-> Highlighted(LinesOf(s, lx), msg, toks,
                              Len(HighlightText(toks[1]))),
          lx |-> lx]
    ELSE IF toks[1].lineno > NumLines(LinesOf(s, lx))
    THEN [exc |-> [st |-> "crash", exc |-> "IndexError"], lx |-> lx]
    ELSE LET Silenced(e) == [e EXCEPT !.st = IF @ = "error" THEN "exit" ELSE @]
             Relexed(all) ==
                 [exc |-> IF ~all.ok
                          THEN Silenced(Highlighted(LinesOf(s, lx),
                                                    "Unexpected token",
                                                    <<all.tok>>,
                                                    Len(all.tok.value)))
                          ELSE Highlighted(LinesOf(s, lx), msg, toks,
                                           CaretsBetween(all.toks, toks[1].cursor,
                                                         toks[Len(toks)].cursor)),
                  lx |-> all.lx]
         IN  Relexed(lex(s, Reset(lx)))

(***************************************************************************)
(* Python values                                                           *)
(***************************************************************************)
PyBool(b) == [t |-> "bool", b |-> b]

PyInt(i) == [t |-> "int", i |-> i]

PyStr(s) == [t |-> "str", s |-> s]

\* A float written with a decimal point: its integer part and the digits
\* of its fraction without trailing zeros (1.50 and 1.5 are one float).
PyFloat(ip, fd) == [t |-> "float", ip |-> ip, fd |-> fd]

PyList(l) == [t |-> "list", l |-> l]

\* A dict: the sequence of its <<key, value>> pairs in insertion order.
PyDict(d) == [t |-> "dict", d |-> d]

\* d[k] = v on the pairs ps: a key already present keeps its place.
DictSet(ps, k, v) ==
    IF \E i \in DOMAIN ps : ps[i][1] = k
    THEN [i \in DOMAIN ps |-> IF ps[i][1] = k THEN <<k, v>> ELSE ps[i]]
    ELSE Append(ps, <<k, v>>)

\* dict.update: every pair of qs is set in ps, in order.
RECURSIVE DictUpdate(_, _)
DictUpdate(ps, qs) ==
    IF qs = <<>> THEN ps
    ELSE DictUpdate(DictSet(ps, qs[1][1], qs[1][2]), Tail(qs))

\* int(text) on a run of digits.
RECURSIVE IntOf(_)
IntOf(ds) ==
    IF ds = <<>> THEN 0
    ELSE 10 * IntOf(SubSeq(ds, 1, Len(ds) - 1)) + DigitVal(ds[Len(ds)])

\* Whether float(text) accepts the text of a FLOAT token: an underscore
\* must stand between two digits.
FloatTextOk(m) ==
    \A i \in DOMAIN m :
        m[i] = "_" => /\ i > 1 /\ i < Len(m)
                      /\ m[i - 1] \in Digits /\ m[i + 1] \in Digits

(***************************************************************************)
(* float(text): the nearest double, known by the digits of its repr.       *)
(* Natural numbers beyond the integers of the checker are sequences of     *)
(* decimal digits, the first digit first, zero being the empty sequence.   *)
(* The sums and products are worked out four digits at a time.             *)
(***************************************************************************)
\* The number without leading zeros.
BigNorm(a) ==
    IF \A i \in DOMAIN a : a[i] = 0 THEN <<>>
    ELSE SubSeq(a, CHOOSE i \in DOMAIN a :
                       a[i] # 0 /\ \A h \in 1..(i - 1) : a[h] = 0,
                Len(a))

Zeros(n) == [i \in 1..n |-> 0]

\* -1, 0 or 1 as a is below, equal to or above b.
BigCmp(a, b) ==
    IF Len(a) # Len(b) THEN (IF Len(a) < Len(b) THEN 0 - 1 ELSE 1)
    ELSE IF a = b THEN 0
    ELSE LET i == CHOOSE j \in DOMAIN a :
                      a[j] # b[j] /\ \A h \in 1..(j - 1) : a[h] = b[h]
         IN  IF a[i] < b[i] THEN 0 - 1 ELSE 1

\* The digits in groups of four, and back.
Limbs(a) ==
    LET n == (Len(a) + 3) \div 4
        p == Zeros(4 * n - Len(a)) \o a
    IN  [i \in 1..n |-> 1000 * p[4 * i - 3] + 100 * p[4 * i - 2]
                        + 10 * p[4 * i - 1] + p[4 * i]]

Unlimbs(l) ==
    BigNorm([i \in 1..(4 * Len(l)) |->
                (l[(i + 3) \div 4] \div <<1000, 100, 10, 1>>[((i - 1) % 4) + 1])
                    % 10])

\* a + sign * b (sign 1 or -1, a >= b for -1), from the last group on,
\* with the carry or the borrow.
RECURSIVE BigAddFrom(_, _, _, _, _)
BigAddFrom(a, b, sign, i, carry) ==
    IF i = 0 THEN (IF carry = 0 THEN <<>> ELSE <<carry>>)
    ELSE LET t == a[i] + sign * b[i] + carry
         IN  IF t < 0 THEN Append(BigAddFrom(a, b, sign, i - 1, 0 - 1), t + 10000)
             ELSE IF t < 10000 THEN Append(BigAddFrom(a, b, sign, i - 1, 0), t)
             ELSE Append(BigAddFrom(a, b, sign, i - 1, 1), t - 10000)

BigAdd(a, b) ==
    LET n == IF Len(a) > Len(b) THEN Len(a) ELSE Len(b)
        Sum(x, y) == Unlimbs(BigAddFrom(x, y, 1, Len(x), 0))
    IN  Sum(Limbs(Zeros(n - Len(a)) \o a), Limbs(Zeros(n - Len(b)) \o b))

\* a - b for a >= b
BigSub(a, b) ==
    LET Diff(x, y) == Unlimbs(BigAddFrom(x, y, 0 - 1, Len(x), 0))
    IN  Diff(Limbs(a), Limbs(Zeros(Len(a) - Len(b)) \o b))

\* a * d for a factor d of five digits at most, from the last group on.
RECURSIVE BigTimesFrom(_, _, _, _)
BigTimesFrom(a, d, i, carry) ==
    IF i = 0 THEN (IF carry = 0 THEN <<>> ELSE <<carry \div 10000, carry % 10000>>)
    ELSE LET t == a[i] * d + carry
         IN  IF t < 10000 THEN Append(BigTimesFrom(a, d, i - 1, 0), t)
             ELSE Append(BigTimesFrom(a, d, i - 1, t \div 10000), t % 10000)

BigTimes(a, d) ==
    LET Product(x) == Unlimbs(BigTimesFrom(x, d, Len(x), 0))
    IN  Product(Limbs(a))

\* a * 5^n, six factors at a time.
RECURSIVE BigTimesFives(_, _)
BigTimesFives(a, n) ==
    IF n = 0 \/ a = <<>> THEN a
    ELSE IF n >= 6 THEN BigTimesFives(BigTimes(a, 15625), n - 6)
    ELSE BigTimesFives(BigTimes(a, 5), n - 1)

\* 2^52: the significand m of a double is in [2^52, 2^53).
Two52 == <<4,5,0,3,5,9,9,6,2,7,3,7,0,4,9,6>>

\* The least j with a * 2^j >= t, or 1074 when that is less (below the
\* normal doubles the exponent stays at -1074), and a * 2^j: sixteen
\* doublings at a time while they stay below t.
RECURSIVE ScaledUp(_, _, _)
ScaledUp(a, t, j) ==
    IF BigCmp(a, t) >= 0 \/ j = 1074 THEN [a |-> a, j |-> j]
    ELSE LET Far(b) == IF j + 16 <= 1074 /\ BigCmp(b, t) < 0
                       THEN ScaledUp(b, t, j + 16)
                       ELSE ScaledUp(BigTimes(a, 2), t, j + 1)
         IN  Far(BigTimes(a, 65536))

\* The double nearest to n / 10^k, for 0 < n / 10^k < 2^52, as m / 2^j:
\* the quotient rounded, a tie to the even one.  m is in [2^52, 2^53] for
\* a normal double; below 2^-1022 j is 1074 and m is less, zero when the
\* value is nearer to zero than to the least double.
NearestDouble(n, k) ==
    LET b == <<1>> \o Zeros(k)
        Cut(a) == IF Len(a) <= k THEN [q |-> <<>>, r |-> a]
                  ELSE [q |-> SubSeq(a, 1, Len(a) - k),
                        r |-> BigNorm(SubSeq(a, Len(a) - k + 1, Len(a)))]
        Rounded(sc, d) ==
            LET c == BigCmp(BigTimes(d.r, 2), b)
                odd == d.q # <<>> /\ d.q[Len(d.q)] % 2 = 1
            IN  [m |-> IF c > 0 \/ (c = 0 /\ odd) THEN BigAdd(d.q, <<1>>)
                       ELSE d.q,
                 j |-> sc.j]
        Divided(sc) == Rounded(sc, Cut(sc.a))
    IN  Divided(ScaledUp(n, Two52 \o Zeros(k), 0))

\* repr of the double m / 2^j: the decimal of the fewest digits that lies
\* nearer to it than to any other double (on the half-way point when m is
\* even), and the nearest such one; as digits d and a scale s, the value
\* being d / 10^s.  The doubles next to it are one unit of m away, half a
\* unit below when m is 2^52 and the double is not the least normal one.
\* f and c are w rounded down to
\* its first n digits and that plus one unit of the n-th digit.
RECURSIVE Shortest(_, _, _, _, _)
Shortest(w, lo, hi, even, n) ==
    LET f == IF n >= Len(w) THEN w
             ELSE SubSeq(w, 1, n) \o Zeros(Len(w) - n)
        c == IF f = w THEN w
             ELSE BigAdd(f, <<1>> \o Zeros(Len(w) - n))
        In(x) == IF even THEN BigCmp(lo, x) <= 0 /\ BigCmp(x, hi) <= 0
                 ELSE BigCmp(lo, x) < 0 /\ BigCmp(x, hi) < 0
        nearer == BigCmp(BigSub(w, f), BigSub(c, w))
    IN  IF n >= Len(w) THEN w
        ELSE IF In(f) /\ In(c)
        THEN (IF nearer < 0 THEN f
              ELSE IF nearer > 0 THEN c
              ELSE IF f[n] % 2 = 0 THEN f ELSE c)
        ELSE IF In(f) THEN f
        ELSE IF In(c) THEN c
        ELSE Shortest(w, lo, hi, even, n + 1)

DoubleRepr(m, j) ==
    LET s == j + 2
        unit == BigTimesFives(<<1>>, s)
        w == BigTimesFives(BigTimes(m, 4), s)
        lo == BigSub(w, IF m = Two52 /\ j < 1074 THEN unit
                        ELSE BigTimes(unit, 2))
        hi == BigAdd(w, BigTimes(unit, IF m = BigTimes(Two52, 2) THEN 4 ELSE 2))
    IN  [d |-> Shortest(w, lo, hi, m[Len(m)] % 2 = 0, 1), s |-> s]

\* float(text) on the text of a FLOAT token that float() accepts, for a
\* value below 2^31: the double nearest to the decimal written.
FloatOf(m) ==
    LET dot  == 1 + RunLen(m, 1, Digits)
        frac == SelectSeq(SubSeq(m, dot + 1, Len(m)), LAMBDA c : c # "_")
        int  == SelectSeq(SubSeq(m, 1, dot - 1), LAMBDA c : c # "_")
        n    == BigNorm([i \in DOMAIN (int \o frac) |-> DigitVal((int \o frac)[i])])
        Written(r) ==
            LET dd == Zeros(IF Len(r.d) > r.s THEN 0 ELSE r.s + 1 - Len(r.d))
                      \o r.d
                cut == Len(dd) - r.s
                Chars(ds) == [i \in DOMAIN ds |-> DigitChar(ds[i])]
            IN  PyFloat(IntOf(Chars(SubSeq(dd, 1, cut))),
                        RStrip(Chars(SubSeq(dd, cut + 1, Len(dd))), {"0"}))
        Nearest(d) == IF d.m = <<>> THEN PyFloat(0, <<>>)
                      ELSE Written(DoubleRepr(d.m, d.j))
    IN  IF n = <<>> THEN PyFloat(0, <<>>)
        ELSE Nearest(NearestDouble(n, Len(frac)))

(***************************************************************************)
(* AST nodes and what parse_expr returns                                   *)
(***************************************************************************)

\* The value None of parse_expr's parameter prev, and of a missing _token.
NoToken == [kind |-> "None", value |-> <<>>, cursor |-> 0 - 1,
            lineno |-> 0, colno |-> 0, match |-> <<>>]

\* Misc.EOF, the enum member parse_expr returns at the end of input.
EOFNode == [t |-> "EOF"]

\* A Token returned by parse_expr in place of a node.
TokNode(tok) == [t |-> "Token", tok |-> tok]

Constant(value, token) == [t |-> "Constant", value |-> value, token |-> token]

Name(id) == [t |-> "Name", id |-> id]

\* Dict: keys is the sequence of the ids of its Name keys.
Dict(keys, values, nested, token) ==
    [t |-> "Dict", keys |-> keys, values |-> values,
     nested |-> nested, token |-> token]

List(elts, token) == [t |-> "List", elts |-> elts, token |-> token]

\* The outcomes of parse_expr.
Ok(node, lx) == [st |-> "ok", node |-> node, lx |-> lx]

\* An exception of Python itself (AttributeError, ValueError, ...).
Crash(exc) == [st |-> "crash", exc |-> exc]

\* raise ParseError.with_highlighting(toks, msg) in parse_expr with the
\* lexer in state lx: the tokens and the message it was asked for, the
\* exception exc on its way up to Parser.parse, and the state lx the
\* lexer is left in.
Raise(s, lx, toks, msg) ==
    LET Made(w) == [st |-> "raise", toks |-> toks, msg |-> msg,
                    exc |-> w.exc, lx |-> w.lx]
    IN  Made(with_highlighting(s, lx, toks, msg))

(***************************************************************************)
(* Parser.parse_expr                                                       *)
(***************************************************************************)
\* The checks on the first token of an expression (prev is None): the
\* message of the error raised, or "" when the token may start one.  The
\* kinds are those of the enums Syntax and BinOp.
FirstTokenError(curr) ==
    LET SyntaxKinds == {"COMMA", "L_PAREN", "R_PAREN", "L_BRACKET",
                        "R_BRACKET", "L_CURLY_BRACE", "R_CURLY_BRACE"}
        BinOpKinds == {"ASSIGN", "ATTRIBUTE"}
    IN  IF curr.kind = "COMMA" THEN "Comma used outside [] or {}"
        ELSE IF curr.kind \in SyntaxKinds THEN "Unmatched"
        ELSE IF curr.kind \in BinOpKinds THEN "Invalid syntax"
        ELSE ""

\* A NEWLINE case that skips every newline: what parse_expr would do
\* without its test on the previous token.
NewlineAlwaysSkipped(prev) == FALSE

\* The NEWLINE case: whether the newline is handed back to the caller (an
\* empty assignment) instead of being skipped.
NewlineEndsAssignment(prev) == prev.kind = "ASSIGN"

\* Token.check_expected_after with a tuple: whether prev is acceptable.
check_expected_after(prev, expected) ==
    ~(prev.kind # "None" /\ prev.kind \notin expected)

\* The ASSIGN case once the value was parsed: the node for target = val.
AssignNode(target, val, prev, curr) ==
    IF val.t = "Token"
    THEN IF val.tok.kind \in {"NEWLINE", "COMMA"}
         THEN [st |-> "ok",
               node |-> Dict(<<target>>, <<Constant(PyNone, NoToken)>>,
                             prev.kind = "L_CURLY_BRACE", curr)]
         ELSE [st |-> "raise", msg |-> "Invalid syntax for assignment",
               toks |-> <<prev, curr, val.tok>>]
    ELSE [st |-> "ok",
          node |-> Dict(<<target>>, <<val>>, prev.kind = "L_CURLY_BRACE", curr)]

\* The block loop's handling of one assignment whose key recurs: the last
\* key and value of the new mapping are appended to the first occurrence.
\* [st, vals]; an AttributeError or IndexError when a side is no mapping.
MergeEntry(vals, idx, val) ==
    IF vals[idx].t # "Dict" \/ val.t # "Dict" THEN Crash("AttributeError")
    ELSE IF val.keys = <<>> THEN Crash("IndexError")
    ELSE [st |-> "ok",
          vals |-> [vals EXCEPT
                      ![idx].keys = Append(@, val.keys[Len(val.keys)]),
                      ![idx].values = Append(@, val.values[Len(val.values)])]]

\* The literal cases: the Constant for a literal token; ValueError when
\* float() rejects the text.
LiteralNode(curr) ==
    CASE curr.kind = "STRING"  -> [st |-> "ok", node |-> Constant(PyStr(curr.value), curr)]
      [] curr.kind = "INTEGER" -> [st |-> "ok", node |-> Constant(PyInt(IntOf(curr.value)), curr)]
      [] curr.kind = "FLOAT"   ->
            IF FloatTextOk(curr.value)
            THEN [st |-> "ok", node |-> Constant(FloatOf(curr.value), curr)]
            ELSE Crash("ValueError")
      [] curr.kind = "TRUE"    -> [st |-> "ok", node |-> Constant(PyBool(TRUE), curr)]
      [] curr.kind = "FALSE"   -> [st |-> "ok", node |-> Constant(PyBool(FALSE), curr)]

LiteralKinds == {"STRING", "INTEGER", "FLOAT", "TRUE", "FALSE"}

\* A block that is always wrapped under the text of the previous token:
\* what the L_CURLY_BRACE case would do without its test on that token.
BlockNodeWrapped(prev, curr, keys, vals) ==
    Dict(<<prev.value>>, <<Dict(keys, vals, FALSE, NoToken)>>, TRUE, curr)

\* The end of the L_CURLY_BRACE case: after an identifier the block is
\* wrapped as the value of that name, after "=" the block itself is the
\* node.
BlockNode(prev, curr, keys, vals) ==
    IF prev.kind = "IDENTIFIER"
    THEN Dict(<<prev.value>>, <<Dict(keys, vals, FALSE, NoToken)>>, TRUE, curr)
    ELSE Dict(keys, vals, FALSE, curr)

RECURSIVE parse_expr(_, _, _)
RECURSIVE BlockLoop(_, _, _, _, _)
RECURSIVE ListLoop(_, _, _, _)

\* The loop of the L_CURLY_BRACE case: assignments are gathered until the
\* closing brace; [st, keys, vals, lx].  An exception of Python in the
\* merge leaves the lexer after the assignment.
BlockLoop(s, lx, curr, keys, vals) ==
    LET \* the index of key k in keys (list.index), 1-based
        IndexOf(ks, k) == CHOOSE i \in DOMAIN ks :
                              ks[i] = k /\ \A j \in 1..(i - 1) : ks[j] # k
        \* a key that recurs, once the merge was tried
        Merged(m, lx1) == IF m.st # "ok"
                          THEN [st |-> "crash", exc |-> m, lx |-> lx1]
                          ELSE BlockLoop(s, lx1, curr, keys, m.vals)
        Added(key, val, lx1) ==
            IF key \notin Range(keys)
            THEN BlockLoop(s, lx1, curr, Append(keys, key), Append(vals, val))
            ELSE Merged(MergeEntry(vals, IndexOf(keys, key), val), lx1)
        Parsed(r) ==
            IF r.st # "ok" THEN r
            ELSE IF r.node.t = "Token"
            THEN IF r.node.tok.kind = "R_CURLY_BRACE"
                 THEN [st |-> "ok", keys |-> keys, vals |-> vals, lx |-> r.lx]
                 ELSE BlockLoop(s, r.lx, curr, keys, vals)
            ELSE IF r.node.t = "Dict"
            THEN IF r.node.keys = <<>> THEN BlockLoop(s, r.lx, curr, keys, vals)
                 ELSE Added(r.node.keys[Len(r.node.keys)],
                            r.node.values[Len(r.node.values)], r.lx)
            ELSE BlockLoop(s, r.lx, curr, keys, vals)
    IN  Parsed(parse_expr(s, lx, curr))

\* The loop of the L_BRACKET case: whatever parse_expr returns is an
\* element until the closing bracket; [st, elems, close, lx].
ListLoop(s, lx, curr, elems) ==
    LET Parsed(r) ==
            IF r.st # "ok" THEN r
            ELSE IF r.node.t = "Token" /\ r.node.tok.kind = "R_BRACKET"
            THEN [st |-> "ok", elems |-> elems, close |-> r.node, lx |-> r.lx]
            ELSE ListLoop(s, r.lx, curr, Append(elems, r.node))
    IN  Parsed(parse_expr(s, lx, curr))

\* Parser.parse_expr(prev) on the text s with the lexer in state lx:
\* Ok(node, lx) with the lexer after the expression, or the exception that
\* leaves the call and the lexer where the call left it.
parse_expr(s, lx, prev) ==
    LET Parsed(g) ==
      LET curr == g.tok
          lx1  == g.lx
          \* the ASSIGN case once the value was parsed
          Assigned(r) ==
              IF r.st # "ok" THEN r
              ELSE LET Built(a) == IF a.st # "ok" THEN Raise(s, r.lx, a.toks, a.msg)
                                   ELSE Ok(a.node, r.lx)
                   IN  Built(AssignNode(prev.value, r.node, prev, curr))
          \* the ATTRIBUTE case once the attribute was parsed
          Attribute(r) ==
              IF r.st # "ok" THEN r
              ELSE Ok(Dict(<<prev.value>>, <<r.node>>, FALSE, curr), r.lx)
          \* the L_CURLY_BRACE case once the block was parsed
          Block(b) ==
              IF b.st # "ok" THEN b
              ELSE Ok(BlockNode(prev, curr, b.keys, b.vals), b.lx)
          \* the L_BRACKET case once the elements were parsed
          Elements(l) ==
              IF l.st # "ok" THEN l
              ELSE IF prev.kind = "IDENTIFIER"
              THEN Ok(Dict(<<prev.value>>, <<l.close>>, FALSE, curr), l.lx)
              ELSE Ok(List(l.elems, curr), l.lx)
          \* the literal cases
          \* get_token raised: StackTraceSilencer in place of its error
          Silenced(r) == [r EXCEPT !.exc.st = IF @ = "error" THEN "exit" ELSE @]
          Literal(c) == IF c.st # "ok"
                        THEN [st |-> "crash", exc |-> c, lx |-> lx1]
                        ELSE Ok(c.node, lx1)
      IN
      IF ~g.ok THEN Silenced(Raise(s, lx1, <<curr>>, g.msg))
      ELSE IF prev.kind = "None"
      THEN IF FirstTokenError(curr) # ""
           THEN Raise(s, lx1, <<curr>>, FirstTokenError(curr))
           ELSE parse_expr(s, lx1, curr)
      ELSE
      CASE curr.kind = "EOF" ->
              \* the text of the previous token is an opener
              IF prev.value \in {<<"[">>, <<"{">>, <<"(">>}
              THEN Raise(s, lx1, <<prev>>, "Unterminated")
              ELSE Ok(EOFNode, lx1)
        [] curr.kind \in {"SPACE", "COMMENT"} -> parse_expr(s, lx1, prev)
        [] curr.kind = "NEWLINE" ->
              IF NewlineEndsAssignment(prev) THEN Ok(TokNode(curr), lx1)
              ELSE parse_expr(s, lx1, prev)
        [] curr.kind = "COMMA" -> parse_expr(s, lx1, curr)
        [] curr.kind = "IDENTIFIER" ->
              IF prev.kind = "IDENTIFIER"
              THEN Raise(s, lx1, <<curr>>, "Unexpected identifier")
              ELSE IF prev.kind = "ASSIGN"
              THEN Raise(s, lx1, <<prev, curr>>,
                         "Invalid assignment (cannot assign an identifier)")
              ELSE IF prev.kind = "L_BRACKET" THEN Ok(Name(curr.value), lx1)
              ELSE parse_expr(s, lx1, curr)
        [] curr.kind = "ASSIGN" ->
              IF prev.kind # "IDENTIFIER"
              THEN Raise(s, lx1, <<prev, curr>>, "Invalid syntax")
              ELSE Assigned(parse_expr(s, lx1, curr))
        [] curr.kind = "ATTRIBUTE" ->
              IF ~check_expected_after(prev, {"IDENTIFIER"})
              THEN Raise(s, lx1, <<curr>>, "Unexpected token")
              ELSE Attribute(parse_expr(s, lx1, curr))
        [] curr.kind = "L_CURLY_BRACE" -> Block(BlockLoop(s, lx1, curr, <<>>, <<>>))
        [] curr.kind = "R_CURLY_BRACE" ->
              IF ~check_expected_after(prev, {"L_CURLY_BRACE", "COMMA"})
              THEN Raise(s, lx1, <<curr>>, "Unexpected token")
              ELSE Ok(TokNode(curr), lx1)
        [] curr.kind = "L_BRACKET" -> Elements(ListLoop(s, lx1, curr, <<>>))
        [] curr.kind = "R_BRACKET" ->
              IF ~check_expected_after(prev, {"L_BRACKET", "COMMA"})
              THEN Raise(s, lx1, <<curr>>, "Unexpected token")
              ELSE Ok(TokNode(curr), lx1)
        [] curr.kind \in LiteralKinds -> Literal(LiteralNode(curr))
        [] OTHER -> Ok(TokNode(curr), lx1)
    IN  Parsed(get_token(s, lx))

(***************************************************************************)
(* Parser.parse, Interpreter, Parser.as_dict                               *)
(***************************************************************************)

\* The body of parse's loop after parse_expr returned a node: a Dict with a
\* Dict among its values is marked nested.
MarkNested(node) ==
    IF node.t = "Dict" /\ \E i \in DOMAIN node.values : node.values[i].t = "Dict"
    THEN [node EXCEPT !.nested = TRUE]
    ELSE node

\* Parser.parse(string, file=None) up to its loop, for a parser whose
\* _string is self_string (a text) and whose lexer is lx: the _string the
\* parser has then, and the lexer the loop reads from.  A string that is
\* passed makes the data new, and the lexer is made anew on self._string,
\* which only the branch for string None assigns.
parse_begin(self_string, lx, s) ==
    LET new_data == s # PyNone
    IN  [string |-> self_string,
         lexer |-> IF new_data THEN NewLexer ELSE lx]

\* A loop that ends at an error and hands back the nodes gathered so far:
\* what parse would do if it left its loop at a TokenError without exiting.
ParseIterPartial(s, lx, body) ==
    LET Parsed(r) ==
            IF r.st # "ok" \/ r.node = EOFNode
            THEN [st |-> "ok", body |-> body, lx |-> Reset(lx)]
            ELSE [st |-> "more", body |-> Append(body, MarkNested(r.node)),
                  lx |-> r.lx]
    IN  Parsed(parse_expr(s, lx, NoToken))

\* A loop that does not leave at the EOF node: what parse would do without
\* its test `parsed is self._lexer.eof`.
ParseIterPastEOF(s, lx, body) ==
    LET Parsed(r) ==
            IF r.st # "ok" THEN r
            ELSE IF r.node = EOFNode THEN [st |-> "more", body |-> body, lx |-> r.lx]
            ELSE [st |-> "more", body |-> Append(body, MarkNested(r.node)),
                  lx |-> r.lx]
    IN  Parsed(parse_expr(s, lx, NoToken))

\* One turn of the loop of Parser.parse from lexer state lx with the nodes
\* gathered so far: [st |-> "more", body, lx] after a node was appended,
\* [st |-> "ok", body, lx] when EOF ended the loop (the lexer is reset), or
\* [st |-> "raise", exc, lx]: the outcome that ends the call and the state
\* the lexer is left in.  A TokenError is caught and turned into
\* sys.exit(1).
ParseIter(s, lx, body) ==
    LET Caught(e) == IF e.st = "error" THEN [e EXCEPT !.st = "exit"] ELSE e
        Parsed(r) ==
            IF r.st # "ok"
            THEN [st |-> "raise", exc |-> Caught(r.exc), lx |-> r.lx]
            ELSE IF r.node = EOFNode
            THEN [st |-> "ok", body |-> body, lx |-> Reset(r.lx)]
            ELSE [st |-> "more", body |-> Append(body, MarkNested(r.node)),
                  lx |-> r.lx]
    IN  Parsed(parse_expr(s, lx, NoToken))

\* Parser.parse: the loop run to its end.
RECURSIVE ParseLoop(_, _, _)
ParseLoop(s, lx, body) ==
    LET Turned(r) == IF r.st = "more" THEN ParseLoop(s, r.lx, r.body) ELSE r
    IN  Turned(ParseIter(s, lx, body))

parse(s, lx) == ParseLoop(s, lx, <<>>)

\* Interpreter.visit: [st |-> "ok", v], or the AttributeError of
\* generic_visit on what is no AST node (a Token, Misc.EOF).
RECURSIVE visit(_)
RECURSIVE visit_Dict(_, _, _)
RECURSIVE visit_List(_, _)

\* Interpreter.visit_Dict: the key of a pair is looked up as the Name node,
\* never found among the string keys, so every pair is stored with d[k] = v.
visit_Dict(keys, values, new_d) ==
    IF keys = <<>> THEN [st |-> "ok", v |-> PyDict(new_d)]
    ELSE LET Visited(r) ==
                 IF r.st # "ok" THEN r
                 ELSE visit_Dict(Tail(keys), Tail(values),
                                 DictSet(new_d, Head(keys), r.v))
         IN  Visited(visit(Head(values)))

visit_List(elts, acc) ==
    IF elts = <<>> THEN [st |-> "ok", v |-> PyList(acc)]
    ELSE LET Visited(r) == IF r.st # "ok" THEN r
                           ELSE visit_List(Tail(elts), Append(acc, r.v))
         IN  Visited(visit(Head(elts)))

visit(node) ==
    CASE node.t = "Constant" -> [st |-> "ok", v |-> node.value]
      [] node.t = "Dict"     -> visit_Dict(node.keys, node.values, <<>>)
      [] node.t = "List"     -> visit_List(node.elts, <<>>)
      [] node.t = "Name"     -> [st |-> "ok", v |-> PyStr(node.id)]
      [] OTHER               -> Crash("AttributeError")

\* An update in which the value bound first stays: what as_dict would do
\* with setdefault in place of update.
UpdateKeepsEarlier(mapping, parsed) == DictUpdate(parsed, mapping)

\* mapping.update(parsed) in as_dict: the later value replaces the earlier.
Update(mapping, parsed) == DictUpdate(mapping, parsed)

\* The check of as_dict on a node of the tree that is no Dict: a
\* ParseError raised with the node's token; a node without a _token
\* (a Token, a Name) is an AttributeError.
NotDictError(s, lx, n) ==
    IF n.t \in {"Constant", "Dict", "List"} /\ n.token.kind \notin {"None", "EOF"}
    THEN with_highlighting(s, lx, <<n.token>>,
                           "cannot be at the start of an expression").exc
    ELSE Crash("AttributeError")

\* The loop of as_dict over the tree.
RECURSIVE InterpretTree(_, _, _, _)
InterpretTree(s, lx, tree, mapping) ==
    IF tree = <<>> THEN [st |-> "ok", value |-> mapping]
    ELSE LET n == Head(tree)
             Visited(r) ==
                 IF r.st # "ok" THEN r
                 ELSE InterpretTree(s, lx, Tail(tree), Update(mapping, r.v.d))
         IN  IF n.t # "Dict" THEN NotDictError(s, lx, n)
             ELSE Visited(visit(n))

\* Parser(s).as_dict(): reset, parse, interpret.
as_dict(s) ==
    LET Parsed(p) == IF p.st # "ok" THEN p.exc
                     ELSE InterpretTree(s, p.lx, p.body, <<>>)
    IN  Parsed(parse(s, Reset(NewLexer)))

(***************************************************************************)
(* DictConverter and ConfigFileMaker                                       *)
(***************************************************************************)

\* DictConverter.unparse_node: a dict becomes a Dict of its unparsed
\* values, a list becomes a List of Name nodes whose ids are the elements
\* themselves, anything else a Constant.
RECURSIVE unparse_node(_)
unparse_node(thing) ==
    CASE thing.t = "dict" ->
            Dict([i \in DOMAIN thing.d |-> thing.d[i][1]],
                 [i \in DOMAIN thing.d |-> unparse_node(thing.d[i][2])],
                 FALSE, NoToken)
      [] thing.t = "list" ->
            List([i \in DOMAIN thing.l |-> Name(thing.l[i])], NoToken)
      [] OTHER -> Constant(thing, NoToken)

\* DictConverter.unparse: one Dict per pair of the mapping, marked nested
\* when its value is a Dict.
unparse(mapping) ==
    [i \in DOMAIN mapping |->
        LET node == unparse_node(mapping[i][2])
        IN  Dict(<<mapping[i][1]>>, <<node>>, node.t = "Dict", NoToken)]

\* str(i) for an integer.
RECURSIVE NatStr(_)
NatStr(n) == IF n < 10 THEN <<DigitChar(n)>>
             ELSE NatStr(n \div 10) \o <<DigitChar(n % 10)>>

\* str(x) for a float PyFloat(ip, fd), ip below 10^16: positional, with
\* one digit at least after the point, and in exponent form below 0.0001.
FloatStr(ip, fd) ==
    LET z == RunLen(fd, 1, {"0"})
    IN  IF ip = 0 /\ fd # <<>> /\ z >= 4
        THEN LET sig == SubSeq(fd, z + 1, Len(fd))
                 exp == z + 1
             IN  <<sig[1]>>
                 \o (IF Len(sig) > 1 THEN <<".">> \o Tail(sig) ELSE <<>>)
                 \o <<"e", "-">>
                 \o (IF exp < 10 THEN <<"0">> ELSE <<>>) \o NatStr(exp)
        ELSE NatStr(ip) \o <<".">> \o (IF fd = <<>> THEN <<"0">> ELSE fd)

\* repr(s) for a string: single quotes, or double quotes when s holds a
\* single quote and no double quote; the quote used, the backslash and
\* every character that is not printable are escaped: the control
\* characters (00 to 1f, 7f to 9f), the no-break space, the soft hyphen
\* and the spaces of Unicode.
ReprChar(c, q) ==
    LET codes == (0..8) \cup {11} \cup (14..31) \cup (127..160) \cup {173}
                 \cup {5760} \cup (8192..8202)
                 \cup {8232, 8233, 8239, 8287, 12288}
    IN  CASE c = "\\"    -> <<"\\", "\\">>
          [] c = q       -> <<"\\", q>>
          [] c = NEWLINE -> <<"\\", "n">>
          [] c = "\t"    -> <<"\\", "t">>
          [] c = "\r"    -> <<"\\", "r">>
          [] c = "\f"    -> Escape(12)
          [] \E n \in codes : c = CharOf(n) ->
                Escape(CHOOSE n \in codes : c = CharOf(n))
          [] OTHER       -> <<c>>

ReprStr(s) ==
    LET q == IF "'" \in Range(s) /\ "\"" \notin Range(s) THEN "\"" ELSE "'"
    IN  <<q>> \o Concat([i \in DOMAIN s |-> ReprChar(s[i], q)]) \o <<q>>

\* ConfigFileMaker.visit_Constant.
visit_Constant(val) ==
    CASE val.t = "str"   -> ReprStr(val.s)
      [] val.t = "none"  -> <<>>
      [] val.t = "bool"  -> IF val.b THEN <<"T","r","u","e">>
                            ELSE <<"F","a","l","s","e">>
      [] val.t = "int"   -> IF val.i < 0 THEN <<"-">> \o NatStr(0 - val.i)
                            ELSE NatStr(val.i)
      [] val.t = "float" -> FloatStr(val.ip, val.fd)

\* ConfigFileMaker.indent
indent == <<" ", " ", " ", " ">>

\* sep.join(parts)
RECURSIVE Join(_, _)
Join(sep, parts) ==
    IF parts = <<>> THEN <<>>
    ELSE IF Len(parts) = 1 THEN parts[1]
    ELSE parts[1] \o sep \o Join(sep, Tail(parts))

\* The number of elements above which visit_List writes one per line.
InlineListMax == 3

\* ConfigFileMaker.visit_List on the ids of the elements: str.join raises
\* TypeError on an element that is no string.
visit_List_text(ids) ==
    IF \E i \in DOMAIN ids : ids[i].t # "str" THEN Crash("TypeError")
    ELSE LET elems == [i \in DOMAIN ids |-> ids[i].s]
         IN  IF Len(elems) > InlineListMax
             THEN [st |-> "ok",
                   s |-> <<"[", NEWLINE>> \o indent
                         \o Join(<<NEWLINE>> \o indent, elems)
                         \o <<NEWLINE, "]">>]
             ELSE [st |-> "ok",
                   s |-> <<"[">> \o Join(<<",", " ">>, elems) \o <<"]">>]

\* ConfigFileMaker.visit: [st |-> "ok", s], or the TypeError of a join.
RECURSIVE cfm_visit(_)
RECURSIVE cfm_assignments(_, _, _)
RECURSIVE cfm_attrs(_, _, _, _)

\* The lines "key.attr = val" of a Dict value v of key.
cfm_attrs(key, attrs, vals, acc) ==
    IF attrs = <<>> THEN [st |-> "ok", lines |-> acc]
    ELSE LET r == cfm_visit(Head(vals))
         IN  IF r.st # "ok" THEN r
             ELSE cfm_attrs(key, Tail(attrs), Tail(vals),
                            Append(acc, key \o <<".">> \o Head(attrs)
                                        \o <<" ", "=", " ">> \o r.s))

\* The loop of visit_Dict over the pairs of a Dict that is not nested.
cfm_assignments(keys, values, acc) ==
    IF keys = <<>> THEN [st |-> "ok", lines |-> acc]
    ELSE LET k == Head(keys)
             v == Head(values)
         IN  IF v.t = "Dict"
             THEN LET a == cfm_attrs(k, v.keys, v.values, acc)
                  IN  IF a.st # "ok" THEN a
                      ELSE cfm_assignments(Tail(keys), Tail(values), a.lines)
             ELSE LET r == cfm_visit(v)
                  IN  IF r.st # "ok" THEN r
                      ELSE cfm_assignments(Tail(keys), Tail(values),
                                           Append(acc, k \o <<" ", "=", " ">> \o r.s))

cfm_visit(node) ==
    CASE node.t = "Constant" -> [st |-> "ok", s |-> visit_Constant(node.value)]
      [] node.t = "List" ->
            visit_List_text([i \in DOMAIN node.elts |-> node.elts[i].id])
      [] node.t = "Dict" ->
            IF node.nested
            THEN LET r == cfm_visit(node.values[1])
                 IN  IF r.st # "ok" THEN r
                     ELSE [st |-> "ok",
                           s |-> node.keys[1] \o <<" ", "{", NEWLINE>> \o indent
                                 \o r.s \o <<NEWLINE, "}">>]
            ELSE LET a == cfm_assignments(node.keys, node.values, <<>>)
                 IN  IF a.st # "ok" THEN a
                     ELSE [st |-> "ok", s |-> Join(<<NEWLINE>> \o indent, a.lines)]

\* ConfigFileMaker.stringify with sep = '\n\n'.
RECURSIVE stringify(_, _)
stringify(tree, acc) ==
    IF tree = <<>> THEN [st |-> "ok", s |-> Join(<<NEWLINE, NEWLINE>>, acc)]
    ELSE LET r == cfm_visit(Head(tree))
         IN  IF r.st # "ok" THEN r ELSE stringify(Tail(tree), Append(acc, r.s))

\* DictConverter.as_file(mapping): [st |-> "ok", s] or the TypeError.
as_file(mapping) == stringify(unparse(mapping), <<>>)

(***************************************************************************)
(* The inputs: texts given to Lexer and Parser, mappings given to          *)
(* DictConverter.as_file                                                   *)
(***************************************************************************)

\* The most STRING literals in a run, statements in a text, elements in a
\* list and levels of nested mappings of the inputs.
MaxStrings == 3
MaxStmts == 2
MaxListLen == 4
MaxDepth == 3

\* STRING literals.
StringLits ==
    { <<"\"","a","\"">>,  \* "a"
      <<"'","'">> }  \* ''

\* What may stand between two literals of a run: nothing, SPACE, NEWLINE,
\* COMMENT.
Gaps ==
    { <<>>,  \* 
      <<" ">>,  \*  
      <<"\n">>,  \* \n
      <<" ","#"," ","c","\n">> }  \*  # c\n

\* What stands before and after a run of literals.
LexPrefixes ==
    { <<>>,  \* 
      <<"x"," ","="," ">> }  \* x = 

LexSuffixes ==
    { <<>>,  \* 
      <<" ","="," ","1">>,  \*  = 1
      <<"\n","]">>,  \* \n]
      <<" ","?">> }  \*  ?

\* The runs of at most n literals.
RECURSIVE StringRuns(_)
StringRuns(n) ==
    IF n = 1 THEN StringLits
    ELSE StringRuns(n - 1)
         \cup {r \o g \o l : r \in StringRuns(n - 1), g \in Gaps, l \in StringLits}

\* Texts with a character no rule matches: a quote marker that is not
\* closed, and other characters.
QuoteTexts ==
    { <<"\"">>,  \* "
      <<"a"," ","="," ","'">>,  \* a = '
      <<"a"," ","="," ",Backtick>>,  \* a = (a backtick)
      <<"a"," ","="," ","\"","\"","\"">>,  \* a = """
      <<"a"," ","="," ","\"","x">>,  \* a = "x
      <<"a"," ","="," ","?">>,  \* a = ?
      <<"a"," ","="," ","1","\n"," ","'"," ","b">> }  \* a = 1\n ' b

\* Texts with white space other than the space and the newline, with a
\* character no rule matches before such white space, and with the long s
\* in a boolean.
WideTexts ==
    { <<"a",CharOf(11),"=",CharOf(160),"1">>,       \* a<0b>=<a0>1
      <<"a",CharOf(8195),"=",CharOf(31),"\"","s","\"",CharOf(133),"\n">>,
      <<"a"," ","="," ","?",CharOf(11),"x">>,       \* a = ?<0b>x
      <<"a"," ","="," ","y","e",CharOf(383)>>,      \* a = ye<017f>
      <<"a"," ","=",CharOf(28),"b">> }              \* a =<1c>b

LexTexts ==
    {p \o r \o q : p \in LexPrefixes, r \in StringRuns(MaxStrings), q \in LexSuffixes}
    \cup QuoteTexts \cup WideTexts

\* Top-level statements: assignments, bare literals, and forms that are no
\* statement.
FirstStmts ==
    { <<"a"," ","="," ","1">>,  \* a = 1
      <<"a",".","x"," ","="," ","1">>,  \* a.x = 1
      <<"a"," ","{"," ","x"," ","="," ","1"," ","}">>,  \* a { x = 1 }
      <<"a"," ","="," ","{"," ","x"," ","="," ","1"," ","}">>,  \* a = { x = 1 }
      <<"a"," ","=">>,  \* a =
      <<"a"," ","="," ","#"," ","c">>,  \* a = # c
      <<"a"," ","="," ">>,  \* a = 
      <<"1">>,  \* 1
      <<"'","s","'">>,  \* 's'
      <<"t","r","u","e">>,  \* true
      <<"1",".","5">>,  \* 1.5
      <<"a"," ","="," ",","," ","2">>,  \* a = , 2
      <<"a"," ","="," ",",","b"," ","="," ","2">>,  \* a = ,b = 2
      <<"x"," ","{"," ","a"," ","="," ",","," ","b"," ","="," ","2"," ","}">>,  \* x { a = , b = 2 }
      <<"a"," ","="," ","[","1",","," ","2","]">>,  \* a = [1, 2]
      <<"a"," ","="," ","[","1",","," ","2">>,  \* a = [1, 2
      <<","," ","a"," ","="," ","1">>,  \* , a = 1
      <<"a"," ","="," ","\"","s","\""," ","\"","t","\"">>,  \* a = "s" "t"
      <<"a"," ","="," ","1",".","5","_">>,  \* a = 1.5_
      <<"a"," ","(">> }  \* a (

NextStmts ==
    { <<"b"," ","="," ","2">>,  \* b = 2
      <<"a",".","y"," ","="," ","2">>,  \* a.y = 2
      <<"a"," ","{"," ","y"," ","="," ","2"," ","}">>,  \* a { y = 2 }
      <<"2">>,  \* 2
      <<"b"," ","=">>,  \* b =
      <<"b"," ","="," ","[","1">> }  \* b = [1

\* What separates two statements.
Seps ==
    { <<"\n">>,  \* \n
      <<" ",","," ">>,  \*  , 
      <<","," ">>,  \* , 
      <<" ","#"," ","c","\n">> }  \*  # c\n

\* The texts of at most n statements.
RECURSIVE Programs(_)
Programs(n) ==
    IF n = 1 THEN FirstStmts
    ELSE Programs(n - 1)
         \cup {p \o sep \o q : p \in Programs(n - 1), sep \in Seps, q \in NextStmts}

\* Statements of a block.
InnerStmts ==
    { <<"b"," ","{"," ","x"," ","="," ","1"," ","}">>,  \* b { x = 1 }
      <<"b"," ","{"," ","y"," ","="," ","2",","," ","z"," ","="," ","3"," ","}">>,  \* b { y = 2, z = 3 }
      <<"b",".","x"," ","="," ","1">>,  \* b.x = 1
      <<"b",".","y"," ","="," ","2">>,  \* b.y = 2
      <<"c"," ","="," ","3">>,  \* c = 3
      <<"c"," ","="," ","[","1",","," ","2","]">> }  \* c = [1, 2]

InnerSeps ==
    { <<" ">>,  \*  
      <<"\n">>,  \* \n
      <<","," ">> }  \* , 

\* A block of two statements: a { s1 sep s2 }
Block(s1, sep, s2) == <<"a"," ","{"," ">> \o s1 \o sep \o s2 \o <<" ","}">>

BlockTexts ==
    {Block(s1, sep, s2) : s1 \in InnerStmts, sep \in InnerSeps, s2 \in InnerStmts}

\* The texts cut short: every proper prefix of a block text.
Prefixes(t) == {SubSeq(t, 1, n) : n \in 1..(Len(t) - 1)}

CutTexts == UNION {Prefixes(t) : t \in BlockTexts}

\* The three spellings of a one-entry nested mapping, for a literal v.
SpellValues ==
    { <<"1">>,  \* 1
      <<"1",".","5">>,  \* 1.5
      <<"1",".","0","0","0","0","0","0","0","0","0","0","0","0","0","0","0","1">>,  \* 1.0000000000000001
      <<"\"","s","\"">>,  \* "s"
      <<"T","r","u","e">>,  \* True
      <<"n","o">> }  \* no

Dotted(v) == <<"a",".","b"," ","="," ">> \o v

Braced(v) == <<"a"," ","{"," ","b"," ","="," ">> \o v \o <<" ","}">>

AssignedBlock(v) ==
    <<"a"," ","="," ","{"," ","b"," ","="," ">> \o v \o <<" ","}">>

SpellTexts == UNION {{Dotted(v), Braced(v), AssignedBlock(v)} : v \in SpellValues}

\* Lists of two elements, names or integers, with and without a comma.
ListElems ==
    { <<"f","o","o">>,  \* foo
      <<"b","a","r">>,  \* bar
      <<"1">> }  \* 1

ListSeps ==
    { <<","," ">>,  \* , 
      <<" ">> }  \*  

ListText(e1, sep, e2) == <<"a"," ","="," ","[">> \o e1 \o sep \o e2 \o <<"]">>

ListTexts == {ListText(e1, sep, e2) : e1 \in ListElems, sep \in ListSeps, e2 \in ListElems}

\* Top-level assignments that bind a and b again and again: the source
\* text, the key, and the value the statement alone is interpreted to.
RebindStmts ==
    { [src |-> <<"a"," ","="," ","1">>, key |-> <<"a">>, val |-> PyInt(1)],
      [src |-> <<"b"," ","="," ","2">>, key |-> <<"b">>, val |-> PyInt(2)],
      [src |-> <<"a"," ","="," ","\"","s","\"">>, key |-> <<"a">>,
       val |-> PyStr(<<"s">>)],
      [src |-> <<"b"," ","="," ","[","1","]">>, key |-> <<"b">>,
       val |-> PyList(<<PyInt(1)>>)],
      [src |-> <<"a",".","x"," ","="," ","1">>, key |-> <<"a">>,
       val |-> PyDict(<< << <<"x">>, PyInt(1) >> >>)] }

\* Three statements, one per line.
RebindText(s1, s2, s3) ==
    s1.src \o <<"\n">> \o s2.src \o <<"\n">> \o s3.src

RebindTexts ==
    {RebindText(s1, s2, s3) : s1 \in RebindStmts, s2 \in RebindStmts, s3 \in RebindStmts}

\* The spellings of the booleans, in every mix of upper and lower case.
TrueWords == {<<"t","r","u","e">>, <<"y","e","s">>}

FalseWords == {<<"f","a","l","s","e">>, <<"n","o">>}

Upper(c) ==
    CASE c = "t" -> "T" [] c = "r" -> "R" [] c = "u" -> "U" [] c = "e" -> "E"
      [] c = "y" -> "Y" [] c = "s" -> "S" [] c = "f" -> "F" [] c = "a" -> "A"
      [] c = "l" -> "L" [] c = "n" -> "N" [] c = "o" -> "O"

RECURSIVE CaseVariants(_)
CaseVariants(w) ==
    IF w = <<>> THEN {<<>>}
    ELSE {<<c>> \o v : c \in {Head(w), Upper(Head(w))}, v \in CaseVariants(Tail(w))}

BoolText(v) == <<"a"," ","="," ">> \o v

BoolTexts ==
    {BoolText(v) : v \in UNION {CaseVariants(w) : w \in TrueWords \cup FalseWords}}

\* Valid inputs line by line, and what may be put at the end of a line:
\* nothing or a comment.
CommentBases ==
    { << <<"a"," ","="," ","1">>,  \* a = 1
         <<"b"," ","{">>,  \* b {
         <<"x"," ","="," ","\"","s","\"">>,  \* x = "s"
         <<"}">> >>,  \* }
      << <<"c"," ","=">>,  \* c =
         <<"d"," ","="," ","[","f","o","o">>,  \* d = [foo
         <<"1","]">>,  \* 1]
         <<"e",".","f"," ","="," ","y","e","s">> >> }  \* e.f = yes

LineEnds ==
    { <<>>,  \* 
      <<" ","#"," ","n","o","t","e">>,  \*  # note
      <<"#">>,  \* #
      <<"#"," ","\"","q"," ","="," ","1">> }  \* # "q = 1

\* The lines put together, line i followed by ends[i] and, but for the last
\* line, by a newline.
RECURSIVE Commented(_, _)
Commented(lines, ends) ==
    IF Len(lines) = 1 THEN lines[1] \o ends[1]
    ELSE lines[1] \o ends[1] \o <<"\n">> \o Commented(Tail(lines), Tail(ends))

Plain(lines) == Commented(lines, [i \in DOMAIN lines |-> <<>>])

CommentTexts ==
    UNION {{Commented(b, e) : e \in [DOMAIN b -> LineEnds]} : b \in CommentBases}

\* Blocks in which the key x of b recurs with a mapping value.
DeepStmts ==
    { <<"b",".","x",".","p"," ","="," ","1">>,  \* b.x.p = 1
      <<"b",".","x",".","q"," ","="," ","2">>,  \* b.x.q = 2
      <<"b",".","x"," ","{"," ","p"," ","="," ","1"," ","}">>,  \* b.x { p = 1 }
      <<"b"," ","{"," ","x"," ","{"," ","q"," ","="," ","2"," ","}"," ","}">> }  \* b { x { q = 2 } }

DeepTexts ==
    {Block(s1, sep, s2) : s1 \in DeepStmts, sep \in InnerSeps, s2 \in DeepStmts}

\* Texts with two tokens that make no statement together, what may stand
\* between the two, and what may follow them.
SpanHeads ==
    { << <<"a"," ","=">>, <<"b">> >>,  \* a =   b
      << <<"\"","s","\"">>, <<"=">> >>,  \* "s"   =
      << <<" "," ","a"," ","="," ","[">>, <<"=">> >> }  \*   a = [   =

SpanGaps == { <<>>, <<" ">>, <<" "," ">>, <<"\n">> }

SpanTails == { <<>>, <<" ","1">>, <<" ","-">>, <<"\n","-">> }

SpanTexts == {h[1] \o g \o h[2] \o t : h \in SpanHeads, g \in SpanGaps, t \in SpanTails}

\* Texts with a closer of the wrong kind in a list or a block: the text up
\* to the opener with the wrong closer, the right closer, an item and a
\* second item; what stands between opener and closer; what follows.
CloserHeads ==
    { << <<"a"," ","="," ","[">>, "}", "]", <<"1">>, <<"2">> >>,  \* a = [
      << <<"a"," ","{">>, "]", "}",
         <<"b"," ","="," ","1">>, <<"c"," ","="," ","2">> >>,     \* a {
      << <<"a"," ","="," ","{">>, "]", "}",
         <<"b"," ","="," ","1">>, <<"c"," ","="," ","2">> >> }    \* a = {

CloserTexts ==
    UNION {{h[1] \o before \o <<h[2]>> \o after :
              before \in {<<>>, h[4], h[4] \o <<",", " ">>, <<",">>,
                          h[4] \o <<",", "\n">>},
              after \in {<<>>, <<h[3]>>, <<" ", h[3]>>,
                         <<",", " ">> \o h[5] \o <<h[3]>>}} :
           h \in CloserHeads}

\* Key names made of letters and underscores that are no boolean spelling,
\* some of which begin or end with one, and the assignment of 1 to a name.
KeyNames ==
    { <<"n","o","t","e">>,                   \* note
      <<"y","e","s","_","f","l","a","g">>,   \* yes_flag
      <<"N","o","_","x">>,                   \* No_x
      <<"t","r","u","t","h">>,               \* truth
      <<"a","_","n","o">>,                   \* a_no
      <<"n">>,                               \* n
      <<"_">> }                              \* _

KeyText(k) == k \o <<" ","="," ","1">>

KeyTexts == {KeyText(k) : k \in KeyNames}

\* Texts passed to Parser.parse(string).
PassedTexts ==
    { <<"a"," ","="," ","1">>,    \* a = 1
      <<"b"," ","="," ","2">> }   \* b = 2

\* Texts passed to Lexer.lex(string): those, and one with a character no
\* rule matches on its second line.
LexedTexts == PassedTexts \cup { <<"b","\n","?">> }   \* b\n?

ParseTexts ==
    Programs(MaxStmts) \cup BlockTexts \cup CutTexts \cup SpellTexts \cup ListTexts
    \cup RebindTexts \cup BoolTexts \cup CommentTexts \cup DeepTexts
    \cup SpanTexts \cup CloserTexts \cup KeyTexts \cup WideTexts

\* The values of a mapping: strings, integers, floats, booleans, lists of
\* at most MaxListLen elements, mappings nested at most d levels deep.
Strs == {PyStr(<<"x">>), PyStr(<<"y">>)}

RECURSIVE StrLists(_)
StrLists(n) ==
    IF n = 0 THEN {<<>>}
    ELSE StrLists(n - 1)
         \cup {Append(l, e) : l \in StrLists(n - 1), e \in Strs}

Leaves ==
    {PyInt(1), PyInt(0 - 2), PyStr(<<"x">>), PyStr(<<"x"," ","y">>),
     PyStr(<<>>), PyBool(TRUE), PyBool(FALSE), PyFloat(1, <<"5">>)}

Lists ==
    {PyList(l) : l \in StrLists(MaxListLen)}
    \cup {PyList(<<PyInt(1)>>), PyList(<<PyStr(<<"x"," ","y">>)>>)}

RECURSIVE Values(_)
Values(d) ==
    IF d = 0 THEN Leaves \cup Lists
    ELSE Values(d - 1)
         \cup {PyDict(<<<< <<"x">>, v >>>>) : v \in Values(d - 1)}
         \cup {PyDict(<<<< <<"x">>, PyInt(1) >>, << <<"y">>, v >>>>) : v \in Leaves}

Mappings ==
    {<<>>}
    \cup {<<<< <<"a">>, v >>>> : v \in Values(MaxDepth)}
    \cup {<<<< <<"a">>, v >>, << <<"b">>, w >>>> :
             v \in Values(MaxDepth), w \in {PyInt(1), PyStr(<<"x">>)}}

(***************************************************************************)
(* Field (field.py)                                                        *)
(*                                                                         *)
(* A string is a PyStr of a sequence of pieces.  A function is a record    *)
(* tagged "func"; calling the wrapper _asyncify, or an async function,     *)
(* gives a coroutine.  What a call returns or raises is a record           *)
(* [ok, v] or [ok, exc].  A bar is a record: the set of the attributes it  *)
(* has, the state of its _can_run event, its _buffers, its override queue, *)
(* the callbacks handed to its event loop, the names in _threads.          *)
(***************************************************************************)

Returns(v) == [ok |-> TRUE, v |-> v]

Raises(e) == [ok |-> FALSE, exc |-> e]

\* A function (async def or def).
PyFunc(async) == [t |-> "func", async |-> async]

callable(v) == v.t = "func"

\* str(v) and bool(v) of the values met here.
str(v) ==
    IF v.t = "str" THEN v.s
    ELSE IF v.t = "none" THEN <<"None">>
    ELSE <<"<coroutine>">>

bool(v) ==
    IF v.t = "str" THEN v.s # <<>>
    ELSE v.t # "none"

\* icon + text
Add(a, b) ==
    IF a.t = "str" /\ b.t = "str" THEN Returns(PyStr(a.s \o b.s))
    ELSE Raises("TypeError")

\* template.format(text, icon=icon): the piece "{}" is the text, the piece
\* "{icon}" the icon.  The text is the one positional argument: a second
\* piece "{}" asks for an argument that is not there.
format(template, text, icon) ==
    IF Cardinality({i \in DOMAIN template.s : template.s[i] = "{}"}) > 1
    THEN Raises("IndexError")
    ELSE Returns(PyStr(Concat([i \in DOMAIN template.s |->
                    IF template.s[i] = "{}" THEN str(text)
                    ELSE IF template.s[i] = "{icon}" THEN str(icon)
                    ELSE <<template.s[i]>>])))

\* Field._format_contents(text, icon, template, always_show_icon)
format_contents(text, icon, template, always_show_icon) ==
    IF template = PyNone
    THEN IF always_show_icon \/ bool(text) THEN Add(icon, text) ELSE Returns(text)
    ELSE format(template, text, icon)

\* The property Field.icon: the TTY icon when the field has no bar, else
\* the icon that bar._stream.isatty() selects.
icon(self, bar) ==
    LET Item(i) == IF i \in DOMAIN self.icons.e
                   THEN Returns(self.icons.e[i])
                   ELSE Raises("IndexError")
    IN  IF ~self.bar THEN Item(2)
        ELSE IF "_stream" \notin bar.attrs THEN Raises("AttributeError")
        ELSE Item(IF bar.isatty THEN 2 ELSE 1)

\* Field._auto_format(text): self.icon is read only where it is used.
auto_format(self, bar, text) ==
    LET ic == icon(self, bar)
    IN  IF self.template = PyNone
        THEN IF self.always_show_icon \/ bool(text)
             THEN IF ic.ok THEN Add(ic.v, text) ELSE ic
             ELSE Returns(text)
        ELSE IF ic.ok THEN format(self.template, text, ic.v)
        ELSE ic

\* self._format_contents(text, self.icon, self.template,
\* self.always_show_icon): self.icon is read first.
format_own(self, bar, text) ==
    LET ic == icon(self, bar)
    IN  IF ic.ok
        THEN format_contents(text, ic.v, self.template,
                             self.always_show_icon)
        ELSE ic

\* What a setup callback that fails gives as backup.
Backup == PyStr(<<"b">>)

\* Field._do_setup(): nothing without a setup callback; its result goes
\* into kwargs; when it raises FailedSetup, the formatted backup becomes
\* the constant output.  setup_ok: whether the callback succeeds.
do_setup(self, bar, setup_ok) ==
    LET c == auto_format(self, bar, Backup)
    IN  IF self.setupfunc = PyNone THEN Returns(self)
        ELSE IF setup_ok
        THEN Returns([self EXCEPT !.kwargs = self.kwargs \cup {"setupvars"}])
        ELSE IF c.ok THEN Returns([self EXCEPT !.constant_output = c.v])
        ELSE c

\* Field.__init__ with the arguments a (a record, one field per
\* parameter) on the bar given as `bar` or on none.
Field_init(a, bar, setup_ok) ==
    LET icons == IF a.icons = PyNone
                 THEN [t |-> "tuple", e |-> <<a.icon, a.icon>>]
                 ELSE a.icons
        is_async == callable(a.func) /\ a.func.async
        self ==
            [t |-> "Field",
             name |-> IF a.name = PyNone /\ callable(a.func)
                      THEN PyStr(<<"f">>) ELSE a.name,
             func |-> a.func,
             kwargs |-> IF a.kwargs = PyNone THEN {} ELSE a.kwargs.keys,
             setupfunc |-> a.setup,
             icons |-> icons,
             template |-> a.template,
             is_async |-> is_async,
             callback |-> IF is_async \/ a.threaded \/ a.timely
                          THEN "func" ELSE "_asyncify",
             bar |-> a.bar,
             timely |-> a.timely,
             always_show_icon |-> a.always_show_icon,
             constant_output |-> a.constant_output,
             interval |-> a.interval,
             overrides_refresh |-> a.overrides_refresh,
             run_once |-> a.run_once,
             threaded |-> a.threaded]
    IN  IF a.constant_output = PyNone /\ a.func = PyNone
        THEN Raises("IncompatibleArgsError")
        ELSE IF a.constant_output = PyNone /\ ~callable(a.func)
        THEN Raises("TypeError")
        ELSE IF a.setup # PyNone /\ ~callable(a.setup)
        THEN Raises("TypeError")
        ELSE IF a.template = PyNone /\ icons = PyNone
        THEN Raises("IncompatibleArgsError")
        ELSE do_setup(self, bar, setup_ok)

\* Field._check_bar(bar, raise_on_fail): True when the bar has the four
\* attributes.  When it lacks one, the test `if no_error:` reads a name
\* that is bound nowhere: NameError, whatever raise_on_fail is.
required_attrs == {"_buffers", "_can_run", "_override_queue", "_stream"}

check_bar(bar, raise_on_fail) ==
    IF \E a \in required_attrs : a \notin bar.attrs
    THEN Raises("NameError")
    ELSE Returns(TRUE)

\* The frame of a call of one of Field's methods: which method, its
\* arguments, where it is, what it raised, its locals, and what it did so
\* far (calls of func, writes of bar._buffers[name]).  The places where a
\* method waits while the bar and the other fields go on: "setup", in the
\* setup callback; "first", in the first call of func; "loop", after a
\* write or a cooldown step and before the test of the refresh loop (the
\* sleep that aligns to the second and the sleep of a cooldown step are
\* spent here); "call", in the call of func of a turn of the loop;
\* "sleep", in the sleep of a turn of run.  While a method is in a call of
\* func, result holds what the call gives.
Frame(fn) ==
    [fn |-> fn, args |-> PyNone, once |-> FALSE, at |-> "returned",
     exc |-> "", ret |-> PyNone, const |-> PyNone, setup |-> "none",
     result |-> PyNone, last_val |-> PyNone, invoked |-> 0, writes |-> 0,
     needed |-> 0, count |-> 0, first_cycle |-> TRUE, local_loop |-> "none"]

\* A method under way: the field, the bar, the frame.
Raised(m, e) == [m EXCEPT !.fr.at = "raised", !.fr.exc = e]

Returned(m) == [m EXCEPT !.fr.at = "returned"]

\* bar._buffers[self.name] = contents
SetBuffer(m, contents) ==
    [m EXCEPT !.bar.buffers = DictSet(@, m.self.name, contents),
              !.fr.writes = @ + 1]

\* The part run and run_threaded share after _check_bar: the constant
\* output, then what follows the setup callback, which succeeded
\* (setup_ok) or raised FailedSetup.  The method is then over (at is
\* "returned" or "raised") or goes on to the first call of func.
ConstantOrSetup(m, setup_ok) ==
    LET self == m.self
        Const(c) == Returned(SetBuffer(m, c))
        Failed(c) ==
            Returned(SetBuffer([m EXCEPT !.self.constant_output = c,
                                         !.fr.setup = "failed"],
                               PyStr(str(c))))
        r == IF self.constant_output # PyNone
             THEN format_own(self, m.bar, self.constant_output)
             ELSE format_own(self, m.bar, Backup)
    IN  IF self.constant_output # PyNone
        THEN IF r.ok THEN Const(r.v) ELSE Raised(m, r.exc)
        ELSE IF self.setupfunc = PyNone THEN m
        ELSE IF ~setup_ok
        THEN IF r.ok THEN Failed(r.v)
             ELSE Raised([m EXCEPT !.fr.setup = "failed"], r.exc)
        ELSE [m EXCEPT !.self.kwargs = @ \cup {"setupvars"},
                       !.fr.setup = "ok"]

\* await func(*self.args, **self.kwargs) in run, func being
\* self._callback: the wrapper _asyncify and an async function give a
\* coroutine, which runs the function; a plain function that was not
\* wrapped runs at the call and its string cannot be awaited.
AwaitCallback(self, res) ==
    IF self.callback = "_asyncify" \/ self.is_async
    THEN [ok |-> TRUE, v |-> res, calls |-> 1]
    ELSE [ok |-> FALSE, exc |-> "TypeError", calls |-> 1]

\* The call of self._callback in run_threaded: an async function is run
\* on the local loop, anything else is called: the wrapper _asyncify
\* then gives its coroutine, which nobody runs.
CallCallback(self, res) ==
    LET Coroutine == [t |-> "coroutine"]
    IN  IF self.is_async \/ self.callback = "func"
        THEN [ok |-> TRUE, v |-> res, calls |-> 1]
        ELSE [ok |-> TRUE, v |-> Coroutine, calls |-> 0]

\* Field.run(bar, once) up to its return or to the first call it waits
\* in: the check of the bar, the constant output, then the setup callback
\* when there is one, else the first call of func.  res: what that call
\* of func gives.
run(self, bar, once, res) ==
    LET m0 == [self |-> self, bar |-> bar,
               fr |-> [Frame("run") EXCEPT !.once = once, !.at = "setup",
                          !.const = self.constant_output]]
        c == AwaitCallback(self, res)
        checked == check_bar(bar, TRUE)
    IN  IF ~checked.ok THEN Raised(m0, checked.exc)
        ELSE IF self.constant_output # PyNone THEN ConstantOrSetup(m0, TRUE)
        ELSE IF self.setupfunc # PyNone THEN m0
        ELSE [m0 EXCEPT !.fr.at = "first",
                        !.fr.invoked = @ + c.calls,
                        !.fr.result = IF c.ok THEN c.v ELSE @]

\* The setup callback of run is over: it raised FailedSetup and run
\* returns after the write of the backup, or it succeeded (setup_ok) and
\* the first call of func begins.  res: what that call gives.
run_setup(m, setup_ok, res) ==
    LET ready == ConstantOrSetup(m, setup_ok)
        c == AwaitCallback(ready.self, res)
    IN  IF ready.fr.at # "setup" THEN ready
        ELSE [ready EXCEPT !.fr.at = "first",
                           !.fr.invoked = @ + c.calls,
                           !.fr.result = IF c.ok THEN c.v ELSE @]

\* The first call of func in run is over: the write of its formatted
\* result, then the return of a field that runs once, else the refresh
\* loop.
run_first(m) ==
    LET c == AwaitCallback(m.self, m.fr.result)
        got == [m EXCEPT !.fr.last_val = c.v, !.fr.at = "loop"]
        contents == auto_format(m.self, m.bar, c.v)
        m2 == SetBuffer(got, contents.v)
    IN  IF ~c.ok THEN Raised(m, c.exc)
        ELSE IF ~contents.ok THEN Raised(got, contents.exc)
        ELSE IF m.self.run_once \/ m.fr.once THEN Returned(m2)
        ELSE m2

\* bar._override_queue.full(): a queue of maxsize 0 or less is never full.
full(bar) == bar.maxsize > 0 /\ Len(bar.queue) >= bar.maxsize

\* bar._override_queue.put_nowait(item): QueueFull when the queue is full.
put_nowait(bar, item) ==
    IF full(bar) THEN Raises("QueueFull")
    ELSE Returns([bar EXCEPT !.queue = Append(@, item)])

\* The head of a turn of the refresh loop of run: the test of
\* bar._can_run, then the call of func begins.  res: what that call
\* gives.
run_loop(m, res) ==
    LET c == AwaitCallback(m.self, res)
    IN  IF ~m.bar.running THEN Returned(m)
        ELSE [m EXCEPT !.fr.at = "call",
                       !.fr.invoked = @ + c.calls,
                       !.fr.result = IF c.ok THEN c.v ELSE @]

\* The call of func of a turn of run is over: the time to sleep is worked
\* out, interval less clock() % interval, and run sleeps.  The result
\* waits in the frame meanwhile.
run_loop_sleep(m) ==
    LET c == AwaitCallback(m.self, m.fr.result)
    IN  IF ~c.ok THEN Raised(m, c.exc)
        ELSE IF m.self.interval = 0 THEN Raised(m, "ZeroDivisionError")
        ELSE [m EXCEPT !.fr.at = "sleep"]

\* The rest of the turn, when the sleep is over: the update when the
\* result is new, then the test of the loop again.  result == last_val: a
\* coroutine object equals only itself, and every call of the wrapper
\* makes a new one.
run_loop_update(m) ==
    LET Eq(a, b) == a.t # "coroutine" /\ a = b
        result == m.fr.result
        m1 == [m EXCEPT !.fr.at = "loop"]
        new == [m1 EXCEPT !.fr.last_val = result]
        contents == auto_format(m.self, m.bar, result)
        m2 == SetBuffer(new, contents.v)
        put == put_nowait(m2.bar, <<m.self.name, contents.v>>)
    IN  IF Eq(result, m.fr.last_val) THEN m1
        ELSE IF ~contents.ok THEN Raised(new, contents.exc)
        ELSE IF m.self.overrides_refresh /\ put.ok
        THEN [m2 EXCEPT !.bar = put.v]
        ELSE m2

\* local_loop.stop(); local_loop.close()
Closed(m) == [m EXCEPT !.fr.local_loop = "closed"]

\* Field.run_threaded(bar, once) up to its return or to the first call
\* it is in: the check of the bar, the constant output, the local event
\* loop, then the setup callback when there is one, else the first call
\* of func.  res: what that call of func gives.
run_threaded(self, bar, once, res) ==
    LET m0 == [self |-> self, bar |-> bar,
               fr |-> [Frame("run_threaded") EXCEPT
                          !.once = once, !.at = "setup",
                          !.const = self.constant_output]]
        opened == [m0 EXCEPT !.fr.local_loop = "open"]
        c == CallCallback(self, res)
        checked == check_bar(bar, TRUE)
    IN  IF ~checked.ok THEN Raised(m0, checked.exc)
        ELSE IF self.constant_output # PyNone THEN ConstantOrSetup(m0, TRUE)
        ELSE IF self.setupfunc # PyNone THEN opened
        ELSE [opened EXCEPT !.fr.at = "first",
                            !.fr.invoked = @ + c.calls,
                            !.fr.result = c.v]

\* The setup callback of run_threaded is over: it raised FailedSetup and
\* run_threaded returns after the write of the backup, the local event
\* loop left open, or it succeeded (setup_ok) and the first call of func
\* begins.  res: what that call gives.
run_threaded_setup(m, setup_ok, res) ==
    LET ready == ConstantOrSetup(m, setup_ok)
        c == CallCallback(ready.self, res)
    IN  IF ready.fr.at # "setup" THEN ready
        ELSE [ready EXCEPT !.fr.at = "first",
                           !.fr.invoked = @ + c.calls,
                           !.fr.result = c.v]

\* The first call of func in run_threaded is over: the write of its
\* formatted result, then the return of a field that runs once, else the
\* number of cooldown steps of an interval, round(interval / step) with
\* halves to the even neighbour, and the refresh loop.
run_threaded_first(m) ==
    LET round(p, q) ==
            LET d == p \div q
                r == p % q
            IN  IF 2 * r < q THEN d
                ELSE IF 2 * r > q THEN d + 1
                ELSE IF d % 2 = 0 THEN d ELSE d + 1
        m1 == [m EXCEPT !.fr.last_val = m.fr.result, !.fr.at = "loop"]
        contents == format_own(m.self, m.bar, m.fr.result)
        m2 == SetBuffer(m1, contents.v)
    IN  IF ~contents.ok THEN Raised(m1, contents.exc)
        ELSE IF m.self.run_once \/ m.fr.once
        THEN IF "_threads" \notin m.bar.attrs
             THEN Raised(Closed(m2), "AttributeError")
             ELSE IF m.self.name \notin m.bar.threads
             THEN Raised(Closed(m2), "KeyError")
             ELSE Returned([Closed(m2) EXCEPT !.bar.threads =
                                         @ \ {m.self.name}])
        ELSE IF "_thread_cooldown" \notin m.bar.attrs
        THEN Raised(m2, "AttributeError")
        ELSE [m2 EXCEPT !.fr.needed =
                 round(m.self.interval, m.bar.thread_cooldown)]

\* The head of a turn of the refresh loop of run_threaded: the test of
\* bar._can_run, then a cooldown step, or the call of func begins.  The
\* thread is in the call until the rest of the turn is taken; the frame
\* holds what the call gives.
run_threaded_loop(m, res) ==
    LET c == CallCallback(m.self, res)
    IN  IF ~m.bar.running THEN Returned(Closed(m))
        ELSE IF m.fr.count < m.fr.needed /\ ~m.fr.first_cycle
        THEN [m EXCEPT !.fr.count = @ + 1]
        ELSE [m EXCEPT !.fr.count = 0, !.fr.first_cycle = FALSE,
                       !.fr.invoked = @ + c.calls, !.fr.result = c.v,
                       !.fr.at = "call"]

\* The rest of the turn, when func has returned: the update when the
\* result is new, the enqueue being handed to the loop of the queue; then
\* the test of the loop again.  result == last_val: a coroutine object
\* equals only itself.
run_threaded_loop_update(m) ==
    LET Eq(a, b) == a.t # "coroutine" /\ a = b
        result == m.fr.result
        m1 == [m EXCEPT !.fr.at = "loop"]
        new == [m1 EXCEPT !.fr.last_val = result]
        contents == auto_format(m.self, m.bar, result)
        m2 == SetBuffer(new, contents.v)
    IN  IF Eq(result, m.fr.last_val) THEN m1
        ELSE IF ~contents.ok THEN Raised(new, contents.exc)
        ELSE IF ~m.self.overrides_refresh THEN m2
        ELSE IF ~m.bar.loop THEN Raised(m2, "AttributeError")
        ELSE [m2 EXCEPT !.bar.pending = Append(@, <<m.self.name, contents.v>>)]

(***************************************************************************)
(* The inputs of the Field model: the arguments given to Field(), the bars *)
(* given to run and run_threaded, what func returns.                       *)
(***************************************************************************)

\* Field() with its defaults.
DefaultArgs ==
    [name |-> PyNone, func |-> PyNone, icon |-> PyStr(<<>>),
     template |-> PyNone, interval |-> 1, timely |-> FALSE,
     overrides_refresh |-> FALSE, threaded |-> FALSE,
     always_show_icon |-> FALSE, run_once |-> FALSE,
     constant_output |-> PyNone, bar |-> FALSE, setup |-> PyNone,
     icons |-> PyNone, kwargs |-> PyNone, align_to_seconds |-> FALSE]

Funcs == {PyFunc(FALSE), PyFunc(TRUE)}

Template == PyStr(<<"[", "{icon}", "]", "{}">>)

\* What is given or left out, and what is given with a wrong type.
ArgsCore ==
    {[DefaultArgs EXCEPT !.func = f, !.constant_output = c, !.icon = i,
                         !.template = t, !.setup = s] :
        f \in Funcs \cup {PyNone, PyInt(3)},
        c \in {PyNone, PyStr(<<"c">>), PyStr(<<>>)},
        i \in {PyStr(<<>>), PyStr(<<"I">>), PyNone},
        t \in {PyNone, Template},
        s \in {PyNone, PyFunc(FALSE), PyInt(3)}}

\* The ways of running a function.
ArgsRun ==
    {[DefaultArgs EXCEPT !.func = f, !.icon = PyStr(<<"I">>),
                         !.threaded = th, !.timely = ti, !.run_once = ro,
                         !.template = t, !.setup = s] :
        f \in Funcs, th \in BOOLEAN, ti \in BOOLEAN, ro \in BOOLEAN,
        t \in {PyNone, Template}, s \in {PyNone, PyFunc(FALSE)}}

\* Fields that send what is new to the override queue.
ArgsOverride ==
    {[DefaultArgs EXCEPT !.func = f, !.icon = PyStr(<<"I">>),
                         !.threaded = th, !.overrides_refresh = TRUE] :
        f \in Funcs, th \in BOOLEAN}

\* Fields of a bar, with one icon for each kind of stream, and intervals.
ArgsIcons ==
    {[DefaultArgs EXCEPT !.func = PyFunc(FALSE), !.name = PyStr(<<"n">>),
                         !.icons = [t |-> "tuple", e |-> e], !.bar = b,
                         !.constant_output = c, !.always_show_icon = a,
                         !.threaded = b, !.interval = n] :
        e \in {<<PyStr(<<"P">>), PyStr(<<"T">>)>>},
        b \in BOOLEAN, c \in {PyNone, PyStr(<<"c">>)}, a \in BOOLEAN,
        n \in {0, 1, 3}}

\* Fields of a template that names the text twice.
ArgsTwice ==
    {[DefaultArgs EXCEPT !.func = PyFunc(FALSE), !.icon = PyStr(<<"I">>),
                         !.template = PyStr(<<"{}", "{}">>),
                         !.constant_output = c, !.threaded = th] :
        c \in {PyNone, PyStr(<<"c">>)}, th \in BOOLEAN}

FieldArgs ==
    ArgsCore \cup ArgsRun \cup ArgsOverride \cup ArgsIcons \cup ArgsTwice

Names == {PyNone, PyStr(<<"f">>), PyStr(<<"n">>)}

AllAttrs ==
    {"_buffers", "_can_run", "_override_queue", "_stream", "_threads",
     "_thread_cooldown"}

\* The size of the override queue and the number of calls of func that
\* a run is followed for.
MaxSize == 1

MaxCalls == 3

NewBar(attrs, threads, loop, isatty, cooldown) ==
    [attrs |-> attrs, running |-> TRUE, isatty |-> isatty,
     buffers |-> <<>>, queue |-> <<>>, maxsize |-> MaxSize,
     pending |-> <<>>, unhandled |-> FALSE, threads |-> threads,
     thread_cooldown |-> cooldown, loop |-> loop]

Bars ==
    {NewBar(AllAttrs, th, l, FALSE, 1) : th \in {{}, Names}, l \in BOOLEAN}
    \cup {NewBar(AllAttrs, Names, TRUE, TRUE, 2)}
    \cup {NewBar(AllAttrs \ {a}, Names, TRUE, FALSE, 1) : a \in AllAttrs}
    \cup {NewBar({}, {}, FALSE, FALSE, 1)}
    \cup {[NewBar(AllAttrs, Names, TRUE, FALSE, 1) EXCEPT !.maxsize = 0]}

Results == {PyStr(<<>>), PyStr(<<"r">>)}

(***************************************************************************)
(* Field.from_default and the table of the default fields.  A mapping of   *)
(* keyword arguments is a function on the names given; the mapping under   *)
(* 'kwargs' is known by its keys.                                          *)
(***************************************************************************)
Kwargs(keys) == [t |-> "dict", keys |-> keys]

\* Field._default_fields as the class is made.  The icon for a terminal
\* with the icon font is written "* "; the functions come from the
\* modules field_funcs and _setups.
Field_default_fields ==
    ("hostname" :>
         [name |-> PyStr(<<"h", "o", "s", "t", "n", "a", "m", "e">>),
          func |-> PyFunc(FALSE),
          run_once |-> TRUE])
    @@
    ("host" :>
         [name |-> PyStr(<<"h", "o", "s", "t">>),
          func |-> PyFunc(FALSE),
          kwargs |-> Kwargs({"fmt"}),
          run_once |-> TRUE])
    @@
    ("uptime" :>
         [name |-> PyStr(<<"u", "p", "t", "i", "m", "e">>),
          func |-> PyFunc(FALSE),
          setup |-> PyFunc(FALSE),
          timely |-> TRUE,
          align_to_seconds |-> TRUE,
          kwargs |-> Kwargs({"fmt", "sep"}),
          icons |-> [t |-> "tuple", e |-> <<PyStr(<<"*", " ">>), PyStr(<<"U", "p", " ">>)>>]])
    @@
    ("cpu_usage" :>
         [name |-> PyStr(<<"c", "p", "u", "_", "u", "s", "a", "g", "e">>),
          func |-> PyFunc(FALSE),
          interval |-> 2,
          threaded |-> TRUE,
          icons |-> [t |-> "tuple", e |-> <<PyStr(<<"*", " ">>), PyStr(<<"C", "P", "U", " ">>)>>]])
    @@
    ("cpu_temp" :>
         [name |-> PyStr(<<"c", "p", "u", "_", "t", "e", "m", "p">>),
          func |-> PyFunc(FALSE),
          interval |-> 5,
          threaded |-> TRUE,
          icons |-> [t |-> "tuple", e |-> <<PyStr(<<"*", " ">>), PyStr(<<>>)>>]])
    @@
    ("mem_usage" :>
         [name |-> PyStr(<<"m", "e", "m", "_", "u", "s", "a", "g", "e">>),
          func |-> PyFunc(FALSE),
          interval |-> 5,
          icons |-> [t |-> "tuple", e |-> <<PyStr(<<"*", " ">>), PyStr(<<"M", "e", "m", " ">>)>>]])
    @@
    ("disk_usage" :>
         [name |-> PyStr(<<"d", "i", "s", "k", "_", "u", "s", "a", "g", "e">>),
          func |-> PyFunc(FALSE),
          interval |-> 4,
          icons |-> [t |-> "tuple", e |-> <<PyStr(<<"*", " ">>), PyStr(<<"/", ":">>)>>]])
    @@
    ("battery" :>
         [name |-> PyStr(<<"b", "a", "t", "t", "e", "r", "y">>),
          func |-> PyFunc(FALSE),
          threaded |-> TRUE,
          icons |-> [t |-> "tuple", e |-> <<PyStr(<<"*", " ">>), PyStr(<<"B", "a", "t", " ">>)>>]])
    @@
    ("net_stats" :>
         [name |-> PyStr(<<"n", "e", "t", "_", "s", "t", "a", "t", "s">>),
          func |-> PyFunc(FALSE),
          interval |-> 4,
          threaded |-> TRUE,
          icons |-> [t |-> "tuple", e |-> <<PyStr(<<"*", " ">>), PyStr(<<>>)>>]])
    @@
    ("datetime" :>
         [name |-> PyStr(<<"d", "a", "t", "e", "t", "i", "m", "e">>),
          func |-> PyFunc(FALSE),
          align_to_seconds |-> TRUE,
          timely |-> TRUE,
          kwargs |-> Kwargs({"fmt"})])

\* The case of from_default in which 'kwargs' of the default is used as
\* it is: no merge (line 361) and no 'kwargs' among the overrides.
UsesDefaultKwargs(default, overrides) ==
    "kwargs" \in DOMAIN default /\ "kwargs" \notin DOMAIN overrides

\* Field.from_default(name, overrides=overrides) with source None.  What
\* it returns or raises, and the table and the mapping of the caller as
\* the call leaves them.  source[name].copy() copies one level: the
\* mapping under 'kwargs' of the copy is the one of the table.  Field()
\* keeps the mapping it is given as self.kwargs without a copy, so what
\* _do_setup writes into self.kwargs is written into that mapping.
from_default(name, overrides, source, bar, setup_ok) ==
    LET \* a | b for two mappings
        Merge(a, b) ==
            [k \in DOMAIN a \cup DOMAIN b |->
                IF k \in DOMAIN b THEN b[k] ELSE a[k]]
        default == source[name]
        both == "kwargs" \in DOMAIN overrides /\ "kwargs" \in DOMAIN default
        merged == Kwargs(default.kwargs.keys \cup overrides.kwargs.keys)
        assigned == IF both THEN [overrides EXCEPT !.kwargs = merged]
                    ELSE overrides
        spec == Merge(default, assigned)
        made == Field_init(spec @@ DefaultArgs, bar, setup_ok)
        Left(kw) == IF made.ok THEN Kwargs(made.v.kwargs) ELSE kw
        Outcome(src, ov) ==
            IF made.ok
            THEN [ok |-> TRUE, v |-> made.v, source |-> src, overrides |-> ov]
            ELSE [ok |-> FALSE, exc |-> made.exc, source |-> src,
                  overrides |-> ov]
    IN  IF name \notin DOMAIN source
        THEN [ok |-> FALSE, exc |-> "DefaultFieldNotFoundError",
              source |-> source, overrides |-> overrides]
        ELSE IF "kwargs" \in DOMAIN overrides
        THEN Outcome(source, [assigned EXCEPT !.kwargs = Left(@)])
        ELSE IF UsesDefaultKwargs(default, overrides)
        THEN Outcome([source EXCEPT ![name].kwargs = Left(@)], overrides)
        ELSE Outcome(source, overrides)

\* The names asked for, one of them unknown, and the overrides given.
DefaultNames == {"hostname", "host", "uptime", "cpu_usage", "datetime", "nope"}

NoOverrides == [k \in {} |-> PyNone]

OverridesGiven ==
    {NoOverrides,
     [icon |-> PyStr(<<"X">>)],
     [kwargs |-> Kwargs({"sep"})],
     [kwargs |-> Kwargs({"a"}), run_once |-> FALSE],
     [constant_output |-> PyStr(<<"c">>)]}

\* Mappings nested at most three deep (the mapping itself counted) whose
\* leaves are non-negative integers, booleans and strings without quote,
\* backslash or newline, and whose nested mappings are not empty.
PlainLeaves ==
    {PyInt(0), PyInt(12), PyBool(TRUE), PyBool(FALSE), PyStr(<<>>),
     PyStr(<<"x"," ","y">>), PyStr(<<"x","\t","y">>),
     PyStr(<<"x",CharOf(11),"y">>)}

RECURSIVE PlainValues(_)
PlainValues(d) ==
    IF d = 0 THEN PlainLeaves
    ELSE PlainValues(d - 1)
         \cup {PyDict(<<<< <<"x">>, v >>>>) : v \in PlainValues(d - 1)}
         \cup {PyDict(<<<< <<"x">>, v >>, << <<"y">>, PyInt(12) >>>>) :
                  v \in PlainValues(d - 1)}

PlainMappings ==
    {<<<< <<"a">>, v >>>> : v \in PlainValues(2)}
    \cup {<<<< <<"a">>, v >>, << <<"b">>, PyBool(FALSE) >>>> :
             v \in PlainValues(1)}

(***************************************************************************)
(* The state machine                                                       *)
(***************************************************************************)

\* mapping: the dict given to DictConverter.as_file (PyNone when the text
\*          was given directly);
\* text:    the string of the Lexer or Parser;
\* lexer:   the Lexer's cursor, line, column and token stack;
\* tokens:  the tokens the calls of get_token returned so far;
\* body:    the nodes Parser.parse gathered so far;
\* outcome: how the call ended, PyNone while it runs;
\* pc:      where the run stands;
\* first_pass: the tokens returned before Lexer.reset() was called, PyNone
\*          while it was not.
\* string:  the text passed to Parser.parse(string), PyNone when none was;
\* field, bar, frame: the Field, its bar and the call of a method of Field.
VARIABLES mapping, text, lexer, tokens, body, outcome, pc, first_pass,
          field, bar, frame, string, default_fields, overrides

vars == <<mapping, text, lexer, tokens, body, outcome, pc, first_pass,
          field, bar, frame, string, default_fields, overrides>>

\* The table of the class Field and the mapping a caller of from_default
\* passed: as given, and as the call left it.
class_vars == <<default_fields, overrides>>

\* A Lexer on a text, a Parser on a text, or a mapping to serialize.
Init ==
    /\ lexer = NewLexer
    /\ tokens = <<>>
    /\ body = <<>>
    /\ outcome = PyNone
    /\ first_pass = PyNone
    /\ field = PyNone
    /\ bar = PyNone
    /\ frame = Frame("")
    /\ string = PyNone
    /\ default_fields = Field_default_fields
    /\ overrides = PyNone
    /\ \/ /\ mapping = PyNone /\ text \in LexTexts /\ pc = "lexing"
       \/ /\ mapping = PyNone /\ text \in ParseTexts /\ pc = "parsing"
       \/ /\ mapping \in {PyDict(m) : m \in Mappings \cup PlainMappings}
          /\ text = <<>>
          /\ pc = "as_file"

\* One call of Lexer.get_token by a caller that reads the tokens up to EOF.
GetToken ==
    /\ pc = "lexing"
    /\ LET Got(r) ==
               /\ tokens' = IF r.ok THEN Append(tokens, r.tok) ELSE tokens
               /\ lexer' = r.lx
               /\ pc' = IF r.ok /\ r.tok.kind # "EOF" THEN "lexing" ELSE "done"
               /\ outcome' = IF ~r.ok
                             THEN [st |-> "lexerror", tok |-> r.tok,
                                   msg |-> r.msg, exc |-> r.exc]
                             ELSE IF r.tok.kind = "EOF" THEN [st |-> "lexed"]
                             ELSE outcome
       IN  Got(get_token(text, lexer))
    /\ UNCHANGED <<mapping, text, body, first_pass, field, bar, frame,
                 string, class_vars>>

\* Lexer.lex() on a Lexer whose reader holds no tokens: the list of
\* tokens it returns, or the lexical error.
Lex ==
    /\ pc = "lexing"
    /\ tokens = <<>>
    /\ LET Lexed(r) ==
               /\ lexer' = r.lx
               /\ outcome' = IF r.ok THEN [st |-> "lexed", toks |-> r.toks]
                             ELSE [st |-> "lexerror", tok |-> r.tok,
                                   msg |-> r.msg, exc |-> r.exc]
       IN  Lexed(lex(text, lexer))
    /\ pc' = "done"
    /\ UNCHANGED <<mapping, text, tokens, body, first_pass, field, bar, frame,
                 string, class_vars>>

\* Lexer.lex(string) on a Lexer whose reader holds no tokens: the lexer
\* reads the string from now on, from where its cursor stands; its lines
\* stay those of the text it was made on.
LexString ==
    /\ pc = "lexing"
    /\ tokens = <<>>
    /\ string = PyNone
    /\ \E s \in LexedTexts :
         LET Lexed(r) ==
                 /\ lexer' = r.lx
                 /\ outcome' = IF r.ok THEN [st |-> "lexed", toks |-> r.toks]
                               ELSE [st |-> "lexerror", tok |-> r.tok,
                                     msg |-> r.msg, exc |-> r.exc]
         IN  /\ string' = PyStr(s)
             /\ text' = s
             /\ Lexed(lex(s, [lexer EXCEPT !.lines = PyStr(LinesOf(text, lexer))]))
    /\ pc' = "done"
    /\ UNCHANGED <<mapping, tokens, body, first_pass, field, bar, frame,
                 class_vars>>

\* Parser.tokens() on a parser that has parsed nothing so far: lex() on
\* the lexer of the parser, which is left at the start of the text with
\* the line number the pass ended on.  A lexical error ends the call.
Tokens ==
    /\ pc = "parsing"
    /\ mapping = PyNone
    /\ string = PyNone
    /\ body = <<>>
    /\ lexer = NewLexer
    /\ LET Lexed(r) ==
               /\ lexer' = r.lx
               /\ first_pass' = IF r.ok THEN [toks |-> r.toks] ELSE first_pass
               /\ pc' = IF r.ok THEN "parsing" ELSE "done"
               /\ outcome' = IF r.ok THEN outcome
                             ELSE [st |-> "lexerror", tok |-> r.tok,
                                   msg |-> r.msg, exc |-> r.exc]
       IN  Lexed(lex(text, lexer))
    /\ UNCHANGED <<mapping, text, tokens, body, field, bar, frame,
                 string, class_vars>>

\* Lexer.reset() called by the reader of the tokens, once: when the
\* tokenization is complete, or right after a STRING was returned (its
\* look-ahead made).  The reader starts again with an empty list.
ResetLexer ==
    /\ first_pass = PyNone
    /\ tokens # <<>>
    /\ \/ pc = "lexing" /\ tokens[Len(tokens)].kind = "STRING"
       \/ pc = "done" /\ outcome.st = "lexed"
    /\ first_pass' = [toks |-> tokens]
    /\ lexer' = Reset(lexer)
    /\ tokens' = <<>>
    /\ outcome' = PyNone
    /\ pc' = "lexing"
    /\ UNCHANGED <<mapping, text, body, field, bar, frame,
                 string, class_vars>>

\* DictConverter.as_file(mapping), and a Parser built on the text.
AsFile ==
    /\ pc = "as_file"
    /\ LET Written(r) ==
               IF r.st = "ok"
               THEN /\ text' = r.s
                    /\ pc' = "parsing"
                    /\ outcome' = outcome
               ELSE /\ text' = text
                    /\ pc' = "done"
                    /\ outcome' = r
       IN  Written(as_file(mapping.d))
    /\ UNCHANGED <<mapping, lexer, tokens, body, first_pass, field, bar, frame,
                 string, class_vars>>

\* One turn of the loop of Parser.parse, called by as_dict.  A turn that
\* ends in an exception leaves the lexer where the exception left it.
ParseStep ==
    /\ pc = "parsing"
    /\ LET Turned(r) ==
               IF r.st \in {"more", "ok"}
               THEN /\ body' = r.body
                    /\ lexer' = r.lx
                    /\ pc' = IF r.st = "ok" THEN "interpret" ELSE "parsing"
                    /\ outcome' = outcome
               ELSE /\ body' = body
                    /\ lexer' = r.lx
                    /\ pc' = "done"
                    /\ outcome' = r.exc
       IN  Turned(ParseIter(text, lexer, body))
    /\ UNCHANGED <<mapping, text, tokens, first_pass, field, bar, frame,
                 string, class_vars>>

\* Parser.parse_expr() called on its own, on a parser that has parsed
\* nothing so far: the lexer is left after the expression, or where the
\* exception left it; the node returned, or the exception, ends the call.
\* A ParseError leaves the call as it is, nothing catching it.
ParseExpr ==
    /\ pc = "parsing"
    /\ mapping = PyNone
    /\ string = PyNone
    /\ body = <<>>
    /\ LET Called(r) ==
               /\ lexer' = r.lx
               /\ outcome' = [st |-> "expr",
                              res |-> IF r.st = "ok"
                                      THEN [st |-> "ok", node |-> r.node]
                                      ELSE r.exc]
       IN  Called(parse_expr(text, lexer, NoToken))
    /\ pc' = "done"
    /\ UNCHANGED <<mapping, text, tokens, body, first_pass, field, bar, frame,
                 string, class_vars>>

\* The rest of Parser.as_dict: the tree is interpreted into one mapping.
Interpret ==
    /\ pc = "interpret"
    /\ outcome' = InterpretTree(text, lexer, body, <<>>)
    /\ pc' = "done"
    /\ UNCHANGED <<mapping, text, lexer, tokens, body, first_pass, field, bar, frame,
                 string, class_vars>>

\* Parser.parse(string) on a parser that was made on the text and has
\* parsed nothing so far, or has just returned from parse: the lexer the
\* loop will read from, and an empty list of nodes.
ParseString ==
    /\ mapping = PyNone
    /\ string = PyNone
    /\ \/ pc = "parsing" /\ body = <<>> /\ lexer = NewLexer
       \/ pc = "interpret"
    /\ \E s \in PassedTexts :
         LET Begun(p) ==
                 /\ text' = p.string
                 /\ lexer' = p.lexer
         IN  /\ string' = PyStr(s)
             /\ Begun(parse_begin(text, lexer, PyStr(s)))
    /\ body' = <<>>
    /\ pc' = "parsing"
    /\ UNCHANGED <<mapping, tokens, outcome, first_pass, field, bar, frame,
                 class_vars>>

Next ==
    \/ GetToken \/ Lex \/ ResetLexer \/ AsFile \/ ParseStep \/ Interpret
    \/ ParseString \/ LexString \/ Tokens \/ ParseExpr

Spec == Init /\ [][Next]_vars

\* Parser.parse is one thread of straight-line code: while it is in its
\* loop, the next turn of the loop is taken.  This is weak fairness of
\* ParseStep, WF_vars(ParseStep), written out with "a turn can be taken" as
\* pc = "parsing", the only guard of ParseStep.  (A reader of the tokens may
\* stop calling get_token whenever it likes: no fairness for the lexing
\* runs.)
ParseFair == []<>(pc # "parsing") \/ []<><<ParseStep>>_vars

LiveSpec == Spec /\ ParseFair

(***************************************************************************)
(* The Field state machine: a bar, a field made on it, then one call of    *)
(* run or of run_threaded, followed turn by turn through its refresh loop, *)
(* while the bar stops, runs the callbacks handed to its loop and takes    *)
(* overrides from its queue.                                               *)
(***************************************************************************)

FieldInit ==
    /\ mapping = PyNone
    /\ text = <<>>
    /\ lexer = NewLexer
    /\ tokens = <<>>
    /\ body = <<>>
    /\ outcome = PyNone
    /\ first_pass = PyNone
    /\ string = PyNone
    /\ pc = "field"
    /\ field = PyNone
    /\ bar \in Bars
    /\ frame = Frame("")
    /\ default_fields = Field_default_fields
    /\ overrides = PyNone

parser_vars ==
    <<mapping, text, lexer, tokens, body, outcome, pc, first_pass, string>>

\* Field(**a)
NewField ==
    /\ pc = "field"
    /\ frame = Frame("")
    /\ \E a \in FieldArgs, setup_ok \in BOOLEAN :
         LET Made(r) ==
                 /\ field' = IF r.ok THEN r.v ELSE PyNone
                 /\ frame' = [Frame("__init__") EXCEPT
                                 !.args = a,
                                 !.at = IF r.ok THEN "returned" ELSE "raised",
                                 !.exc = IF r.ok THEN "" ELSE r.exc]
         IN  /\ setup_ok \/ a.setup # PyNone
             /\ Made(Field_init(a, bar, setup_ok))
    /\ UNCHANGED <<bar, parser_vars, class_vars>>

\* Field._check_bar(bar, raise_on_fail)
CheckBar ==
    /\ pc = "field"
    /\ frame.fn = "__init__"
    /\ \E raise_on_fail \in BOOLEAN :
         LET Checked(r) ==
                 frame' = [Frame("_check_bar") EXCEPT
                              !.args = PyBool(raise_on_fail),
                              !.at = IF r.ok THEN "returned" ELSE "raised",
                              !.exc = IF r.ok THEN "" ELSE r.exc,
                              !.ret = IF r.ok THEN PyBool(r.v) ELSE PyNone]
         IN  Checked(check_bar(bar, raise_on_fail))
    /\ UNCHANGED <<field, bar, parser_vars, class_vars>>

Became(m) ==
    /\ field' = m.self
    /\ bar' = m.bar
    /\ frame' = m.fr

\* field.run(bar, once), to its return or to the first call it waits in
Run ==
    /\ pc = "field"
    /\ frame.fn = "__init__"
    /\ field # PyNone
    /\ \E once \in BOOLEAN, res \in Results :
         Became(run(field, bar, once, res))
    /\ UNCHANGED <<parser_vars, class_vars>>

\* The setup callback of run is over
RunSetup ==
    /\ pc = "field"
    /\ frame.fn = "run"
    /\ frame.at = "setup"
    /\ \E setup_ok \in BOOLEAN, res \in Results :
         Became(run_setup([self |-> field, bar |-> bar, fr |-> frame],
                          setup_ok, res))
    /\ UNCHANGED <<parser_vars, class_vars>>

\* The first call of func in run is over
RunFirst ==
    /\ pc = "field"
    /\ frame.fn = "run"
    /\ frame.at = "first"
    /\ Became(run_first([self |-> field, bar |-> bar, fr |-> frame]))
    /\ UNCHANGED <<parser_vars, class_vars>>

\* The head of a turn of the refresh loop of run: the test, the call
RunLoop ==
    /\ pc = "field"
    /\ frame.fn = "run"
    /\ frame.at = "loop"
    /\ frame.invoked < MaxCalls
    /\ frame.writes <= MaxCalls
    /\ \E res \in Results :
         Became(run_loop([self |-> field, bar |-> bar, fr |-> frame], res))
    /\ UNCHANGED <<parser_vars, class_vars>>

\* The call of func of a turn of run is over: run goes to sleep
RunLoopSleep ==
    /\ pc = "field"
    /\ frame.fn = "run"
    /\ frame.at = "call"
    /\ Became(run_loop_sleep([self |-> field, bar |-> bar, fr |-> frame]))
    /\ UNCHANGED <<parser_vars, class_vars>>

\* run wakes from the sleep of its turn and takes the rest of it
RunLoopUpdate ==
    /\ pc = "field"
    /\ frame.fn = "run"
    /\ frame.at = "sleep"
    /\ Became(run_loop_update([self |-> field, bar |-> bar, fr |-> frame]))
    /\ UNCHANGED <<parser_vars, class_vars>>

\* field.run_threaded(bar, once), to its return or to the first call it
\* is in
RunThreaded ==
    /\ pc = "field"
    /\ frame.fn = "__init__"
    /\ field # PyNone
    /\ \E once \in BOOLEAN, res \in Results :
         Became(run_threaded(field, bar, once, res))
    /\ UNCHANGED <<parser_vars, class_vars>>

\* The setup callback of run_threaded is over
RunThreadedSetup ==
    /\ pc = "field"
    /\ frame.fn = "run_threaded"
    /\ frame.at = "setup"
    /\ \E setup_ok \in BOOLEAN, res \in Results :
         Became(run_threaded_setup(
                    [self |-> field, bar |-> bar, fr |-> frame],
                    setup_ok, res))
    /\ UNCHANGED <<parser_vars, class_vars>>

\* The first call of func in run_threaded is over
RunThreadedFirst ==
    /\ pc = "field"
    /\ frame.fn = "run_threaded"
    /\ frame.at = "first"
    /\ Became(run_threaded_first(
                  [self |-> field, bar |-> bar, fr |-> frame]))
    /\ UNCHANGED <<parser_vars, class_vars>>

\* The head of a turn of the refresh loop of run_threaded: the test, then
\* a cooldown step or the call
RunThreadedLoop ==
    /\ pc = "field"
    /\ frame.fn = "run_threaded"
    /\ frame.at = "loop"
    /\ \/ frame.invoked < MaxCalls /\ frame.writes <= MaxCalls
       \/ ~bar.running
    /\ \E res \in Results :
         Became(run_threaded_loop(
                    [self |-> field, bar |-> bar, fr |-> frame], res))
    /\ UNCHANGED <<parser_vars, class_vars>>

\* func returns to run_threaded, which takes the rest of its turn
RunThreadedLoopUpdate ==
    /\ pc = "field"
    /\ frame.fn = "run_threaded"
    /\ frame.at = "call"
    /\ Became(run_threaded_loop_update(
                  [self |-> field, bar |-> bar, fr |-> frame]))
    /\ UNCHANGED <<parser_vars, class_vars>>

\* The bar stops: bar._can_run.clear()
Stop ==
    /\ pc = "field"
    /\ "_can_run" \in bar.attrs
    /\ bar.running
    /\ bar' = [bar EXCEPT !.running = FALSE]
    /\ UNCHANGED <<field, frame, parser_vars, class_vars>>

\* The loop of the bar runs the callback a thread handed to it:
\* put_nowait(item).  What the callback raises is raised in that loop.
BarLoop ==
    /\ pc = "field"
    /\ bar.pending # <<>>
    /\ LET put == put_nowait(bar, Head(bar.pending))
           b == IF put.ok THEN put.v ELSE [bar EXCEPT !.unhandled = TRUE]
       IN  bar' = [b EXCEPT !.pending = Tail(@)]
    /\ UNCHANGED <<field, frame, parser_vars, class_vars>>

\* The bar takes an override from its queue.
QueueGet ==
    /\ pc = "field"
    /\ bar.queue # <<>>
    /\ bar' = [bar EXCEPT !.queue = Tail(@)]
    /\ UNCHANGED <<field, frame, parser_vars, class_vars>>

\* Field.from_default(name, overrides=ov), as the first thing done or
\* after other such calls
FromDefault ==
    /\ pc = "field"
    /\ frame.fn \in {"", "from_default"}
    /\ \E name \in DefaultNames, ov \in OverridesGiven, setup_ok \in BOOLEAN :
         LET Called(r) ==
                 /\ field' = IF r.ok THEN r.v ELSE field
                 /\ default_fields' = r.source
                 /\ overrides' = [given |-> ov, left |-> r.overrides]
                 /\ frame' = [Frame("from_default") EXCEPT
                                 !.args = [name |-> name],
                                 !.at = IF r.ok THEN "returned" ELSE "raised",
                                 !.exc = IF r.ok THEN "" ELSE r.exc,
                                 !.ret = IF r.ok THEN r.v ELSE PyNone]
         IN  Called(from_default(name, ov, default_fields, bar, setup_ok))
    /\ UNCHANGED <<bar, parser_vars>>

FieldNext ==
    \/ NewField \/ CheckBar
    \/ Run \/ RunSetup \/ RunFirst \/ RunLoop \/ RunLoopSleep \/ RunLoopUpdate
    \/ RunThreaded \/ RunThreadedSetup \/ RunThreadedFirst
    \/ RunThreadedLoop \/ RunThreadedLoopUpdate
    \/ Stop \/ BarLoop \/ QueueGet \/ FromDefault

FieldSpec == FieldInit /\ [][FieldNext]_vars

\* run_threaded is the target of a thread of its own, which the system
\* keeps running, and func, once called, returns: the first call of func
\* comes to its end, while the method stands at the test of its loop on a
\* bar that has stopped the test is taken, and the call of a turn comes to
\* its end.  (While the bar runs, the bound on the calls may end the
\* behaviour: nothing is asked of the turns of a running bar.)
ThreadFair ==
    /\ WF_vars(RunThreadedFirst)
    /\ WF_vars(RunThreadedLoop /\ ~bar.running)
    /\ WF_vars(RunThreadedLoopUpdate)

FieldLiveSpec == FieldSpec /\ ThreadFair

(***************************************************************************)
(* What the properties are stated with                                     *)
(***************************************************************************)

\* The text s from index i cut into the matches of the lexer's rules, one
\* after the other, up to the end or to a character no rule matches:
\* [kind, at, len, value], at the 0-based offset, value the text matched
\* (for a STRING, what stands between its quote markers).
RECURSIVE Scan(_, _)
Scan(s, i) ==
    LET Cut(m) ==
            IF m.kind = "NONE" THEN <<>>
            ELSE <<[kind |-> m.kind, at |-> i - 1, len |-> m.len,
                    value |-> IF m.kind = "STRING"
                              THEN Strip(SubSeq(s, i, i + m.len - 1), Range(m.sc))
                              ELSE SubSeq(s, i, i + m.len - 1)]>>
                 \o Scan(s, i + m.len)
    IN  IF i > Len(s) THEN <<>> ELSE Cut(MatchRules(s, i))

\* The index of the first piece from index j on that is neither SPACE,
\* COMMENT nor NEWLINE; Len(ps) + 1 when there is none.
RECURSIVE NextSig(_, _)
NextSig(ps, j) ==
    IF j > Len(ps) THEN Len(ps) + 1
    ELSE IF ps[j].kind \in IgnoredKinds THEN NextSig(ps, j + 1)
    ELSE j

\* The index of the last STRING of the run of STRING literals that starts
\* at piece j, and the concatenation of the contents of the run.
RECURSIVE RunEnd(_, _)
RunEnd(ps, j) ==
    LET n == NextSig(ps, j + 1)
    IN  IF n <= Len(ps) /\ ps[n].kind = "STRING" THEN RunEnd(ps, n) ELSE j

RECURSIVE RunValue(_, _)
RunValue(ps, j) ==
    LET n == NextSig(ps, j + 1)
    IN  IF n <= Len(ps) /\ ps[n].kind = "STRING"
        THEN ps[j].value \o RunValue(ps, n)
        ELSE ps[j].value

\* The number of literals of the run that starts at piece j.
RECURSIVE RunCount(_, _)
RunCount(ps, j) ==
    LET n == NextSig(ps, j + 1)
    IN  IF n <= Len(ps) /\ ps[n].kind = "STRING" THEN 1 + RunCount(ps, n) ELSE 1

\* The index of the piece at offset c.
PieceAt(ps, c) == CHOOSE j \in DOMAIN ps : ps[j].at = c

\* A call of Parser.as_dict has ended.
ParseDone == pc = "done" /\ outcome.st \notin {"lexed", "lexerror", "expr"}

\* The value bound to key k in the pairs ps of a mapping.
Lookup(ps, k) == ps[CHOOSE i \in DOMAIN ps : ps[i][1] = k][2]

HasKey(ps, k) == \E i \in DOMAIN ps : ps[i][1] = k

(***************************************************************************)
(* Properties                                                              *)
(***************************************************************************)

\* C1. Round trip: for every mapping M built from strings, integers,
\* floats, booleans, lists and nested mappings, Parser(as_file(M)).as_dict()
\* ends with a mapping equal to M.
RoundTrip ==
    (pc = "done" /\ mapping # PyNone)
        => outcome = [st |-> "ok", value |-> mapping.d]

\* C2. Idempotent serialization: when the text of as_file(M) was parsed
\* back to a mapping, as_file of that mapping is the same text again.
SerializeIdempotent ==
    (pc = "done" /\ mapping # PyNone /\ outcome.st = "ok")
        => as_file(outcome.value) = [st |-> "ok", s |-> text]

\* The keys of a Dict node that is a mapping value, {} for another node.
NodeKeys(n) == IF n.t = "Dict" THEN Range(n.keys) ELSE {}

\* C3. Top-level duplicate-key merge: when two top-level assignments bind
\* the same key to mapping values, the resulting mapping holds under that
\* key the entries of both values: no key of the earlier or the later
\* value is lost.
TopLevelMerge ==
    ParseDone =>
        \A i, j \in DOMAIN body :
            (/\ i < j
             /\ body[i].t = "Dict" /\ body[j].t = "Dict"
             /\ Len(body[i].keys) = 1 /\ body[i].keys = body[j].keys
             /\ body[i].values[1].t = "Dict" /\ body[j].values[1].t = "Dict"
             /\ \A k \in 1..Len(body) : k \in {i, j} \/ body[k].t # "Dict"
                                        \/ body[k].keys # body[i].keys)
            => /\ outcome.st = "ok"
               /\ HasKey(outcome.value, body[i].keys[1])
               /\ LET got == Lookup(outcome.value, body[i].keys[1])
                  IN  /\ got.t = "dict"
                      /\ \A k \in NodeKeys(body[i].values[1])
                                  \cup NodeKeys(body[j].values[1]) :
                             HasKey(got.d, k)

\* The statements of a block that bind b to a mapping value.
MappingStmts ==
    {st \in InnerStmts : Len(st) > 1 /\ st[1] = "b" /\ st[2] \in {" ", "."}}

\* Every pair of the mapping value v is a pair of the mapping value w.
EntriesWithin(v, w) ==
    /\ v.t = "dict" /\ w.t = "dict"
    /\ \A i \in DOMAIN v.d : \E j \in DOMAIN w.d : w.d[j] = v.d[i]

\* What one statement alone binds b to.
BoundAlone(st) == Lookup(as_dict(st).value, <<"b">>)

\* C4. Block duplicate-key merge: a block in which the key b occurs twice
\* with a mapping value is parsed to a mapping that holds under b every
\* entry of the first and every entry of the later value.
BlockMerge ==
    ParseDone =>
        \A s1, s2 \in MappingStmts : \A sep \in InnerSeps :
            text = Block(s1, sep, s2)
            => /\ outcome.st = "ok"
               /\ HasKey(outcome.value, <<"a">>)
               /\ Lookup(outcome.value, <<"a">>).t = "dict"
               /\ HasKey(Lookup(outcome.value, <<"a">>).d, <<"b">>)
               /\ LET got == Lookup(Lookup(outcome.value, <<"a">>).d, <<"b">>)
                  IN  /\ EntriesWithin(BoundAlone(s1), got)
                      /\ EntriesWithin(BoundAlone(s2), got)

\* What get_token returned at place k is the STRING for the whole run of
\* literals that starts at its offset, and the token returned next, if
\* any, is what follows the run: the first piece after it that is neither
\* SPACE, COMMENT, NEWLINE (a STRING it cannot be), or EOF.
RunReturnedWhole(ps, k) ==
    LET j == PieceAt(ps, tokens[k].cursor)
        n == NextSig(ps, RunEnd(ps, j) + 1)
    IN  /\ tokens[k].value = RunValue(ps, j)
        /\ k < Len(tokens) =>
              IF n <= Len(ps)
              THEN /\ tokens[k + 1].kind = ps[n].kind
                   /\ tokens[k + 1].kind # "STRING"
                   /\ tokens[k + 1].cursor = ps[n].at
                   /\ tokens[k + 1].value = ps[n].value
              ELSE tokens[k + 1].kind = "EOF"

\* C5. String concatenation: a run of STRING literals separated only by
\* SPACE, COMMENT or NEWLINE is returned by get_token as one STRING token
\* whose value is the concatenation of the contents in source order, and
\* the first significant token after the run is returned by the very next
\* call.
StringRunIsOneToken ==
    \A k \in DOMAIN tokens :
        tokens[k].kind = "STRING" => RunReturnedWhole(Scan(text, 1), k)

\* C5 happens: a run of three literals with a comment inside was returned
\* as one token, and the call after it returned the "=" that follows.
StringRunReturned ==
    \E k \in DOMAIN tokens :
        /\ tokens[k].kind = "STRING"
        /\ k < Len(tokens)
        /\ tokens[k + 1].kind = "ASSIGN"
        /\ tokens[k].value = <<"a", "a">>
        /\ LET ps == Scan(text, 1)
               j  == PieceAt(ps, tokens[k].cursor)
           IN  /\ RunCount(ps, j) = 3
               /\ \E c \in j..RunEnd(ps, j) : ps[c].kind = "COMMENT"

\* The offset just after "key = ... NEWLINE" when the text starts with an
\* assignment whose "=" is followed by spaces and comments only and then
\* a NEWLINE; 0 when it does not.
EmptyAssignEnd(ps) ==
    LET e == IF Len(ps) >= 2 /\ ps[2].kind = "SPACE" THEN 3 ELSE 2
        RECURSIVE After(_)
        After(j) == IF j <= Len(ps) /\ ps[j].kind \in {"SPACE", "COMMENT"}
                    THEN After(j + 1) ELSE j
        n == After(e + 1)
    IN  IF /\ Len(ps) >= e /\ ps[1].kind = "IDENTIFIER" /\ ps[e].kind = "ASSIGN"
           /\ n <= Len(ps) /\ ps[n].kind = "NEWLINE"
        THEN ps[n].at + ps[n].len
        ELSE 0

\* The outcome of the whole text is that of the rest with key bound to
\* None before the rest's bindings.
NullThenRest(key, rest) ==
    IF rest.st = "ok"
    THEN outcome = [st |-> "ok",
                    value |-> Update(<<<<key, PyNone>>>>, rest.value)]
    ELSE outcome.st # "ok"

\* C6. Empty assignment at a newline: when the text starts with "key ="
\* followed only by spaces and comments and then a NEWLINE, the key is
\* bound to None and what follows is parsed as it is parsed alone.
EmptyAssignAtNewline ==
    ParseDone =>
        LET ps  == Scan(text, 1)
            end == EmptyAssignEnd(ps)
        IN  end > 0 =>
              NullThenRest(ps[1].value,
                           as_dict(SubSeq(text, end + 1, Len(text))))

\* C6 happens: "a =", a comment, a NEWLINE and an assignment of b ended
\* with a bound to None and b to 2.
EmptyAssignParsed ==
    /\ ParseDone
    /\ EmptyAssignEnd(Scan(text, 1)) > 0
    /\ \E i \in DOMAIN text : text[i] = "#"
    /\ outcome = [st |-> "ok",
                  value |-> << << <<"a">>, PyNone >>, << <<"b">>, PyInt(2) >> >>]

\* The values bound to key k in the mapping value v, at any depth.
RECURSIVE BoundTo(_, _)
BoundTo(v, k) ==
    IF v.t # "dict" THEN {}
    ELSE {v.d[i][2] : i \in {j \in DOMAIN v.d : v.d[j][1] = k}}
         \cup UNION {BoundTo(v.d[i][2], k) : i \in DOMAIN v.d}

\* The places of the pieces ps where an "=" is followed, across spaces and
\* comments only, by a comma.
CommaAfterAssign(ps) ==
    {j \in DOMAIN ps :
        /\ ps[j].kind = "ASSIGN"
        /\ \E c \in (j + 1)..Len(ps) :
              /\ ps[c].kind = "COMMA"
              /\ \A m \in (j + 1)..(c - 1) : ps[m].kind \in {"SPACE", "COMMENT"}}

\* The key of the assignment whose "=" is piece j: the last IDENTIFIER
\* before it.
KeyOf(ps, j) ==
    ps[CHOOSE i \in 1..(j - 1) :
          /\ ps[i].kind = "IDENTIFIER"
          /\ \A m \in (i + 1)..(j - 1) : ps[m].kind # "IDENTIFIER"].value

\* C7. Empty assignment at a comma: when an "=" is followed by a comma
\* with nothing but ignorable tokens in between, the key of the assignment
\* is bound to None in the mapping parsed (what stands after the comma does
\* not become its value).
EmptyAssignAtComma ==
    (ParseDone /\ outcome.st = "ok") =>
        LET ps == Scan(text, 1)
        IN  \A j \in CommaAfterAssign(ps) :
                BoundTo(PyDict(outcome.value), KeyOf(ps, j)) = {PyNone}

\* The offsets of the openers "[" and "{" still open at the end of the
\* pieces ps, the innermost last.
RECURSIVE OpenAt(_, _, _)
OpenAt(ps, j, open) ==
    IF j > Len(ps) THEN open
    ELSE IF ps[j].kind \in {"L_BRACKET", "L_CURLY_BRACE"}
    THEN OpenAt(ps, j + 1, Append(open, ps[j].at))
    ELSE IF ps[j].kind \in {"R_BRACKET", "R_CURLY_BRACE"} /\ open # <<>>
    THEN OpenAt(ps, j + 1, SubSeq(open, 1, Len(open) - 1))
    ELSE OpenAt(ps, j + 1, open)

\* The outcome is the 'Unterminated' error raised with the one token at
\* offset at.
UnterminatedError(at) ==
    /\ outcome.st = "exit"
    /\ outcome.msg = "Unterminated"
    /\ Len(outcome.toks) = 1
    /\ outcome.toks[1].cursor = at
    /\ outcome.toks[1].kind \in {"L_BRACKET", "L_CURLY_BRACE"}

\* C8. Unterminated construct: a text that ends while a "[" or "{" is
\* open (here: a block text cut short) ends the parse in the
\* 'Unterminated' error reported at the innermost opener left open.
UnterminatedAtOpener ==
    (ParseDone /\ text \in CutTexts) =>
        LET open == OpenAt(Scan(text, 1), 1, <<>>)
        IN  open # <<>> => UnterminatedError(open[Len(open)])

\* C9. Top-level shape: a text whose first token is a bare literal does not
\* parse to a mapping: the literal is not dropped in silence.
BareLiteralRejected ==
    ParseDone =>
        LET ps == Scan(text, 1)
            n  == NextSig(ps, 1)
        IN  (n <= Len(ps) /\ ps[n].kind \in LiteralKinds) => outcome.st # "ok"

\* Whether a comma stands outside every "[...]" and "{...}" of the pieces.
RECURSIVE CommaOutside(_, _, _)
CommaOutside(ps, j, depth) ==
    IF j > Len(ps) THEN FALSE
    ELSE IF ps[j].kind = "COMMA" /\ depth = 0 THEN TRUE
    ELSE IF ps[j].kind \in {"L_BRACKET", "L_CURLY_BRACE"}
    THEN CommaOutside(ps, j + 1, depth + 1)
    ELSE IF ps[j].kind \in {"R_BRACKET", "R_CURLY_BRACE"} /\ depth > 0
    THEN CommaOutside(ps, j + 1, depth - 1)
    ELSE CommaOutside(ps, j + 1, depth)

\* C10. A comma outside any "[...]" or "{...}" is a syntax error: a text
\* that starts with an assignment and has such a comma after a statement
\* (not in the value place of an assignment) does not parse to a mapping,
\* whatever stands between the statement before and the comma.
TopLevelCommaRejected ==
    ParseDone =>
        LET ps == Scan(text, 1)
        IN  (/\ ps # <<>> /\ ps[1].kind = "IDENTIFIER"
             /\ CommaOutside(ps, 1, 0) /\ CommaAfterAssign(ps) = {})
                => outcome.st # "ok"
\* C11. The three spellings a.b = v, a { b = v } and a = { b = v } are
\* interpreted to the same mapping for every literal v: the mapping that
\* binds a to the mapping b = v alone is interpreted to.
SpellingsAgree ==
    \A v \in SpellValues :
        (ParseDone /\ text \in {Dotted(v), Braced(v), AssignedBlock(v)})
            => LET Expected(r) ==
                       /\ r.st = "ok"
                       /\ Len(r.value) = 1
                       /\ outcome = [st |-> "ok",
                                     value |-> << << <<"a">>, PyDict(r.value) >> >>]
               IN  Expected(as_dict(<<"b"," ","="," ">> \o v))

\* a = { b = 1.5 } was interpreted to {a: {b: 1.5}}.
BlockAfterAssignParsed ==
    /\ ParseDone
    /\ text = AssignedBlock(<<"1",".","5">>)
    /\ outcome = [st |-> "ok",
                  value |-> << << <<"a">>,
                                  PyDict(<< << <<"b">>, PyFloat(1, <<"5">>) >> >>) >> >>]
\* The value of a list element of ListElems: the integer 1, or the name.
ElemValue(e) == IF e = <<"1">> THEN PyInt(1) ELSE PyStr(e)

\* C12. Inside a list a bare identifier is a literal-name element at every
\* position: a = [e1, e2] and a = [e1 e2] are both interpreted to the list
\* of the two elements, whether they are names or integers.
NamesInList ==
    \A e1 \in ListElems, sep \in ListSeps, e2 \in ListElems :
        (ParseDone /\ text = ListText(e1, sep, e2))
            => outcome = [st |-> "ok",
                          value |-> << << <<"a">>,
                                          PyList(<<ElemValue(e1), ElemValue(e2)>>) >> >>]
\* The keys of the statements sts in the order of their first appearance.
RECURSIVE FirstAppearance(_, _)
FirstAppearance(sts, seen) ==
    IF sts = <<>> THEN seen
    ELSE FirstAppearance(Tail(sts),
                         IF \E i \in DOMAIN seen : seen[i] = Head(sts).key
                         THEN seen ELSE Append(seen, Head(sts).key))

\* The last statement of sts that binds key k.
LastBinding(sts, k) ==
    sts[CHOOSE i \in DOMAIN sts :
            sts[i].key = k /\ \A j \in (i + 1)..Len(sts) : sts[j].key # k]

\* C13. Later top-level assignment wins: when a key is assigned more than
\* once at top level and the last value is no mapping, the result binds the
\* key to the value of the last assignment, and the keys stand in the order
\* of their first appearance.
LaterAssignmentWins ==
    \A s1 \in RebindStmts, s2 \in RebindStmts, s3 \in RebindStmts :
        (ParseDone /\ text = RebindText(s1, s2, s3))
            => LET sts == <<s1, s2, s3>>
               IN  /\ outcome.st = "ok"
                   /\ [i \in DOMAIN outcome.value |-> outcome.value[i][1]]
                        = FirstAppearance(sts, <<>>)
                   /\ \A k \in {<<"a">>, <<"b">>} :
                        (HasKey(outcome.value, k)
                         /\ LastBinding(sts, k).val.t # "dict")
                            => Lookup(outcome.value, k) = LastBinding(sts, k).val

\* a = 1, b = 2, a = "s" was interpreted to {a: "s", b: 2}.
ReboundLast ==
    /\ ParseDone
    /\ text = <<"a"," ","="," ","1","\n","b"," ","="," ","2","\n",
                "a"," ","="," ","\"","s","\"">>
    /\ outcome = [st |-> "ok",
                  value |-> << << <<"a">>, PyStr(<<"s">>) >>,
                               << <<"b">>, PyInt(2) >> >>]
\* C14. Boolean literals are case-insensitive: as an assigned value every
\* case variant of true or yes is interpreted to True and every case variant
\* of false or no to False.
BooleansIgnoreCase ==
    /\ \A w \in TrueWords : \A v \in CaseVariants(w) :
          (ParseDone /\ text = BoolText(v))
              => outcome = [st |-> "ok", value |-> << << <<"a">>, PyBool(TRUE) >> >>]
    /\ \A w \in FalseWords : \A v \in CaseVariants(w) :
          (ParseDone /\ text = BoolText(v))
              => outcome = [st |-> "ok", value |-> << << <<"a">>, PyBool(FALSE) >> >>]

\* a = fAlSe was interpreted to {a: False}.
MixedCaseFalseParsed ==
    /\ ParseDone
    /\ text = <<"a"," ","="," ","f","A","l","S","e">>
    /\ outcome = [st |-> "ok", value |-> << << <<"a">>, PyBool(FALSE) >> >>]
\* Every COMMENT among the pieces of the text s runs from its "#" up to the
\* newline that ends its line, or to the end of the text, and holds no
\* newline itself.
CommentsEndAtNewline(s) ==
    LET Each(ps) ==
            \A j \in DOMAIN ps :
                ps[j].kind = "COMMENT"
                    => /\ NEWLINE \notin Range(ps[j].value)
                       /\ \/ ps[j].at + ps[j].len = Len(s)
                          \/ s[ps[j].at + ps[j].len + 1] = NEWLINE
    IN  Each(Scan(s, 1))

\* C15. Comment skipping: a comment runs to the end of its line without
\* the newline, and a valid input with comments put at the ends of any of
\* its lines is interpreted to the mapping of the input without them.
CommentsChangeNothing ==
    \A b \in CommentBases :
        (ParseDone /\ \E e \in [DOMAIN b -> LineEnds] : text = Commented(b, e))
            => /\ CommentsEndAtNewline(text)
               /\ outcome.st = "ok"
               /\ outcome = as_dict(Plain(b))

\* c = with a comment right after the "=", and comments on the other lines,
\* was interpreted to {c: None, d: [foo, 1], e: {f: True}}.
CommentedParsed ==
    /\ ParseDone
    /\ \E b \in CommentBases :
          /\ b[1] = <<"c"," ","=">>
          /\ text = Commented(b, [i \in DOMAIN b |->
                                     IF i = 1 THEN <<"#">>
                                     ELSE <<" ","#"," ","n","o","t","e">>])
    /\ outcome = [st |-> "ok",
                  value |-> << << <<"c">>, PyNone >>,
                               << <<"d">>, PyList(<<PyStr(<<"f","o","o">>), PyInt(1)>>) >>,
                               << <<"e">>, PyDict(<< << <<"f">>, PyBool(TRUE) >> >>) >> >>]
\* The elements es one after the other, each but the first after sep.
RECURSIVE Separated(_, _)
Separated(es, sep) ==
    IF es = <<>> THEN <<>>
    ELSE IF Len(es) = 1 THEN es[1]
    ELSE es[1] \o sep \o Separated(Tail(es), sep)

\* A list on one line, and a list with one element per line.
OneLine(es) == <<"[">> \o Separated(es, <<",", " ">>) \o <<"]">>

OnePerLine(es) ==
    <<"[", "\n", " ", " ", " ", " ">>
    \o Separated(es, <<"\n", " ", " ", " ", " ">>) \o <<"\n", "]">>

\* as_file was called on a mapping whose first key a is bound to a list.
ListGiven ==
    /\ mapping # PyNone
    /\ pc # "as_file"
    /\ mapping.d # <<>>
    /\ mapping.d[1][2].t = "list"

\* What stands for an element of a list in the text: a string as it is
\* (visit_Name), another value as visit_Constant writes it.
ElementText(e) == IF e.t = "str" THEN e.s ELSE visit_Constant(e)

\* What follows "a = " in the text, up to the end of the first statement.
WrittenList ==
    LET es == [i \in DOMAIN mapping.d[1][2].l |->
                  ElementText(mapping.d[1][2].l[i])]
        Rest(l) ==
            IF Len(mapping.d) = 1 THEN SubSeq(text, 5, Len(text))
            ELSE SubSeq(text, 5, 4 + Len(l))
    IN  Rest(IF Len(es) > 3 THEN OnePerLine(es) ELSE OneLine(es))

\* C16. List formatting threshold: as_file writes a list of 0 to 3 elements
\* on one line, the elements joined by a comma and a space, and a list of 4
\* or more elements as an opening bracket, one element per line after 4
\* spaces, and a closing bracket.
ListLayout ==
    ListGiven
        => LET es == [i \in DOMAIN mapping.d[1][2].l |->
                         ElementText(mapping.d[1][2].l[i])]
           IN  /\ Len(text) >= 4
               /\ SubSeq(text, 1, 4) = <<"a", " ", "=", " ">>
               /\ Len(es) <= 3 => WrittenList = OneLine(es)
               /\ Len(es) >= 4 => WrittenList = OnePerLine(es)

\* Whether the keys of the Dict node n, and of every Dict node below it,
\* are pairwise distinct.
RECURSIVE DistinctKeys(_)
DistinctKeys(n) ==
    IF n.t = "Dict"
    THEN /\ \A i \in DOMAIN n.keys, j \in DOMAIN n.keys :
              i # j => n.keys[i] # n.keys[j]
         /\ \A i \in DOMAIN n.values : DistinctKeys(n.values[i])
    ELSE IF n.t = "List"
    THEN \A i \in DOMAIN n.elts : DistinctKeys(n.elts[i])
    ELSE TRUE

\* C17. Key uniqueness: every Dict node the parser produced, a Dict into
\* which a recurring key of a block was merged included, has pairwise
\* distinct keys.
KeysUnique == \A i \in DOMAIN body : DistinctKeys(body[i])
\* The tree is one statement a { ... } whose block binds b alone to a Dict
\* node: that node.
HasInnerDict ==
    /\ Len(body) = 1
    /\ body[1].t = "Dict"
    /\ body[1].keys = << <<"a">> >>
    /\ body[1].values[1].t = "Dict"
    /\ body[1].values[1].keys = << <<"b">> >>
    /\ body[1].values[1].values[1].t = "Dict"

InnerDict == body[1].values[1].values[1]

\* C18. Interpreter merge: when a key occurs twice in one Dict node and both
\* values are mappings, the interpreted value of the key is the mapping of
\* the earlier value updated with the entries of the later value.
InterpreterMerges ==
    (ParseDone /\ text \in DeepTexts /\ outcome.st = "ok" /\ HasInnerDict)
        => LET n == InnerDict
               OfA == Lookup(outcome.value, <<"a">>)
           IN  (/\ Len(n.keys) = 2
                /\ n.keys[1] = n.keys[2]
                /\ n.values[1].t = "Dict"
                /\ n.values[2].t = "Dict")
                   => Lookup(Lookup(OfA.d, <<"b">>).d, n.keys[1])
                        = PyDict(DictUpdate(visit(n.values[1]).v.d,
                                            visit(n.values[2]).v.d))
\* Lexer.lex() has returned its list of tokens.
LexReturned == pc = "done" /\ outcome.st = "lexed" /\ tokens = <<>>

\* C19. For every lexically valid text, the token sequence Lexer.lex()
\* returns ends in one EOF token, and no EOF token stands before the last
\* position.
LexEndsInEOF ==
    LexReturned
        => /\ outcome.toks # <<>>
           /\ outcome.toks[Len(outcome.toks)].kind = "EOF"
           /\ \A k \in 1..(Len(outcome.toks) - 1) : outcome.toks[k].kind # "EOF"
\* C20. Lexical error classification: when no rule matches at the cursor,
\* the error carries the cursor's line and column, and it is reported as
\* "Unmatched quote" when the run of characters up to the next whitespace is
\* a quote marker and as "Unexpected token" otherwise.
QuoteErrorsClassified ==
    (pc = "done" /\ outcome.st = "lexerror")
        => /\ outcome.tok.cursor = lexer.cursor
           /\ outcome.tok.lineno = lexer.lineno
           /\ outcome.tok.colno = lexer.colno
           /\ outcome.msg = IF outcome.tok.value \in SPEECH_CHARS
                            THEN "Unmatched quote"
                            ELSE "Unexpected token"
\* Whether the sequence p is the start of the sequence q.
IsPrefix(p, q) == Len(p) <= Len(q) /\ SubSeq(q, 1, Len(p)) = p

\* C21. Replayability: after Lexer.reset(), at the end of a tokenization or
\* right after a STRING look-ahead, the tokens read again up to EOF begin
\* with the tokens of the first pass, kind, value, cursor, line and column
\* alike (and are the same when the first pass was complete).
ReplaySame ==
    (first_pass # PyNone /\ pc = "done" /\ outcome.st = "lexed" /\ tokens # <<>>)
        => /\ IsPrefix(first_pass.toks, tokens)
           /\ first_pass.toks[Len(first_pass.toks)].kind = "EOF"
                  => tokens = first_pass.toks
\* What the first of the calls of parse_expr that Parser.parse makes on the
\* text s from lexer state lx to raise an error raises (a lexical error, a
\* syntax error, or an exception of Python itself); [st |-> "ok"] when none
\* of them does.
RECURSIVE RaisedFrom(_, _)
RaisedFrom(s, lx) ==
    LET Step(r) == IF r.st # "ok" THEN r
                   ELSE IF r.node = EOFNode THEN [st |-> "ok"]
                   ELSE RaisedFrom(s, r.lx)
    IN  Step(parse_expr(s, lx, NoToken))

RaisesFrom(s, lx) == RaisedFrom(s, lx).st # "ok"

\* A call of Parser.as_dict runs or has ended.
InParse == pc \in {"parsing", "interpret"} \/ ParseDone

\* C22. Errors are terminal: when a lexical or syntax error is raised at
\* any point of the parse of a text, parse returns no list of nodes and the
\* call ends in an error, whatever valid assignments stand before the error;
\* and when as_dict meets a node that is no Dict, it ends in an error and
\* returns no mapping.
ErrorsAreTerminal ==
    InParse
        => /\ RaisesFrom(text, Reset(NewLexer))
                => /\ pc # "interpret"
                   /\ pc = "done" => /\ outcome.st \in {"exit", "crash"}
                                      /\ "value" \notin DOMAIN outcome
           /\ (/\ ~RaisesFrom(text, Reset(NewLexer))
               /\ pc = "done"
               /\ \E i \in DOMAIN body : body[i].t # "Dict")
                => /\ outcome.st \in {"error", "crash"}
                   /\ "value" \notin DOMAIN outcome

\* A valid assignment was parsed, and the statement after it ended the call
\* with the error of an unterminated list.
ErrorAfterAssignment ==
    /\ ParseDone
    /\ mapping = PyNone
    /\ Len(body) = 1
    /\ body[1].t = "Dict"
    /\ outcome.st = "exit"
    /\ outcome.msg = "Unterminated"
    /\ RaisesFrom(text, Reset(NewLexer))
\* The step is a call of get_token that returned a token other than EOF.
GotNonEOF ==
    /\ pc = "lexing"
    /\ pc' = "lexing"
    /\ Len(tokens') = Len(tokens) + 1

\* A turn of the loop of parse changes the state: it ends the loop, or it
\* appends a node or moves the lexer.
NoStall ==
    pc = "parsing"
        => LET Turned(r) == r.st = "more" => (r.body # body \/ r.lx # lexer)
           IN  Turned(ParseIter(text, lexer, body))

\* Parser.parse, once called, returns its list of nodes or ends in an error.
ParseEnds == (pc = "parsing") ~> (pc \in {"interpret", "done"})

\* A turn of the loop of parse after which the loop goes on has read from
\* the text or from the pushback buffer; a turn that starts with the whole
\* text read and nothing pushed back is the last one.  (A step that passes
\* a string to parse is a new call, not a turn; nor is a call of tokens.)
LoopsEnd ==
    [][(pc = "parsing" /\ string' = string /\ first_pass' = first_pass)
         => /\ pc' = "parsing"
                => \/ lexer'.cursor > lexer.cursor
                   \/ Len(lexer'.stack) < Len(lexer.stack)
            /\ (lexer.cursor = Len(text) /\ lexer.stack = <<>>)
                => pc' # "parsing"]_vars

\* C23 as stated.  Termination: parse eventually returns or ends in an
\* error, every call of get_token that returns a token other than EOF
\* advances the cursor by at least one character, and no loop runs on once
\* EOF is reached.
TerminationCursorAdvances ==
    /\ ParseEnds
    /\ []NoStall
    /\ [][GotNonEOF => lexer'.cursor > lexer.cursor]_vars
    /\ LoopsEnd

\* C23, amended.  Termination: parse eventually returns or ends in an
\* error; every call of get_token that returns a token other than EOF
\* either advances the cursor by at least one character or takes the token
\* from the pushback buffer, which gets one shorter, the cursor staying
\* where the look-ahead left it; and no loop runs on once EOF is reached.
Termination ==
    /\ ParseEnds
    /\ []NoStall
    /\ [][GotNonEOF
            => \/ /\ lexer.stack = <<>>
                  /\ lexer'.cursor > lexer.cursor
               \/ /\ lexer.stack # <<>>
                  /\ Len(lexer'.stack) = Len(lexer.stack) - 1
                  /\ lexer'.cursor = lexer.cursor]_vars
    /\ LoopsEnd

\* A token was taken from the pushback buffer: the STRING before it was
\* returned with the look-ahead made, and the call that returned the token
\* left the cursor where it was, behind the token.
PushedBackTokenReturned ==
    /\ pc = "lexing"
    /\ first_pass = PyNone
    /\ Len(tokens) >= 2
    /\ tokens[Len(tokens) - 1].kind = "STRING"
    /\ tokens[Len(tokens)].cursor < lexer.cursor
    /\ lexer.stack = <<>>

\* The offset at which the line of s that holds offset c starts.
LineStart(s, c) ==
    LET before == {i \in 1..c : s[i] = NEWLINE}
    IN  IF before = {} THEN 0 ELSE CHOOSE i \in before : \A j \in before : j <= i

\* The line of s that holds offset c, without its newline.
LineAt(s, c) ==
    SubSeq(s, LineStart(s, c) + 1,
           LineStart(s, c) + RunLenNot(s, LineStart(s, c) + 1, {NEWLINE}))

\* The number of characters the token t takes in the text s: those of the
\* rule's match at its offset (for a STRING, quote markers included), the
\* characters up to the next whitespace for a token no rule matches, none
\* for EOF.
SourceLen(s, t) ==
    IF t.kind = "EOF" THEN 0
    ELSE IF t.kind = "UNKNOWN" THEN RunLenNot(s, t.cursor + 1, Whitespace)
    ELSE MatchRules(s, t.cursor + 1).len

\* An error raised for one token ended the call of as_dict.
SingleTokenError ==
    /\ ParseDone
    /\ outcome.st \in {"exit", "error"}
    /\ Len(outcome.toks) = 1

\* C24. Single-token error highlight: the displayed line is the token's
\* source line without its leading and trailing whitespace; the caret line
\* starts under the token's first character in it, that is at the token's
\* column less the number of leading whitespace characters stripped; and it
\* holds as many carets as the token has characters in the source (for a
\* STRING the quoted text as matched, quote markers included).
SingleTokenHighlight ==
    SingleTokenError
        => LET t        == outcome.toks[1]
               src      == RStrip(LineAt(text, t.cursor), Whitespace)
               stripped == RunLen(src, 1, Whitespace)
           IN  /\ outcome.line = SubSeq(src, stripped + 1, Len(src))
               /\ outcome.pad = t.colno - stripped - 1
               /\ outcome.pad = t.cursor - LineStart(text, t.cursor) - stripped
               /\ outcome.carets = SourceLen(text, t)
               /\ (t.kind # "NEWLINE" /\ outcome.carets > 0)
                     => SubSeq(outcome.line, outcome.pad + 1,
                               outcome.pad + outcome.carets)
                          = SubSeq(text, t.cursor + 1, t.cursor + outcome.carets)

\* The number of characters of the pieces ps (from piece j on) that start
\* at an offset up to end, the first NEWLINE and what follows it left out.
RECURSIVE SpanLen(_, _, _)
SpanLen(ps, j, end) ==
    IF j > Len(ps) \/ ps[j].at > end \/ ps[j].kind = "NEWLINE" THEN 0
    ELSE ps[j].len + SpanLen(ps, j + 1, end)

\* The call of as_dict has ended, and the parser raised an error for
\* several tokens.
MultiTokenError ==
    /\ ParseDone
    /\ mapping = PyNone
    /\ RaisedFrom(text, Reset(NewLexer)).st = "raise"
    /\ Len(RaisedFrom(text, Reset(NewLexer)).toks) >= 2

\* C25. Multi-token error highlight: the error raised with several tokens
\* is the one that ends the call; its caret line starts under the first
\* offending token and holds one caret for every character of every token
\* of the source (whitespace and comments are tokens too) whose offset lies
\* between the offsets of the first and of the last offending token, up to
\* the first NEWLINE.
MultiTokenHighlight ==
    MultiTokenError
        => LET e        == RaisedFrom(text, Reset(NewLexer))
               first    == e.toks[1]
               last     == e.toks[Len(e.toks)]
               src      == RStrip(LineAt(text, first.cursor), Whitespace)
               stripped == RunLen(src, 1, Whitespace)
               ps       == Scan(text, 1)
           IN  /\ outcome.st = "exit"
               /\ outcome.msg = e.msg
               /\ outcome.toks = e.toks
               /\ outcome.line = SubSeq(src, stripped + 1, Len(src))
               /\ outcome.pad = first.cursor - LineStart(text, first.cursor) - stripped
               /\ outcome.carets = SpanLen(ps, PieceAt(ps, first.cursor), last.cursor)

\* The token t stands in the text s at the line and the column its offset
\* has: line 1 plus the newlines before the offset, column 1 plus the
\* distance from the last newline before it (from the start of the text
\* when there is none).
WellPlaced(s, t) ==
    /\ t.lineno = 1 + Cardinality({i \in 1..t.cursor : s[i] = NEWLINE})
    /\ t.colno = 1 + t.cursor - LineStart(s, t.cursor)

\* C30. Position invariant: in the first tokenization pass over a text,
\* every token get_token has returned (tokens replayed from the pushback
\* buffer and concatenated STRING tokens included), and every token of the
\* list lex() returns, carries the line number and the column of its offset.
PositionInvariant ==
    (first_pass = PyNone /\ pc \in {"lexing", "done"})
        => /\ \A i \in DOMAIN tokens : WellPlaced(text, tokens[i])
           /\ (pc = "done" /\ outcome.st = "lexed" /\ "toks" \in DOMAIN outcome)
                 => \A i \in DOMAIN outcome.toks : WellPlaced(text, outcome.toks[i])

\* A STRING concatenated from literals of two lines was returned, and after
\* it the token its look-ahead pushed back, which stands on a later line.
ReplayedOnLaterLine ==
    /\ first_pass = PyNone
    /\ pc = "lexing"
    /\ \E i \in DOMAIN tokens :
         /\ i + 1 \in DOMAIN tokens
         /\ tokens[i].kind = "STRING"
         /\ Len(tokens[i].value) > Len(tokens[i].match) - 2
         /\ tokens[i + 1].lineno > tokens[i].lineno + 1
         /\ tokens[i + 1].cursor < lexer.cursor

(***************************************************************************)
(* Field: construction, the bar check, constant output, run-once           *)
(***************************************************************************)

\* The bar has what _check_bar asks for.
BarPasses == required_attrs \subseteq bar.attrs

InRun == frame.fn \in {"run", "run_threaded"}

\* bar._buffers[field.name] is the string v.
Buffered(v) ==
    \E i \in DOMAIN bar.buffers : bar.buffers[i] = <<field.name, v>>

\* The arguments are of the types Field() asks for, the icon aside, and
\* there is no setup callback.
WellTyped(a) ==
    /\ a.func = PyNone \/ callable(a.func)
    /\ a.setup = PyNone

\* Both icons of the field are strings.
IconsGiven == \A i \in DOMAIN field.icons.e : field.icons.e[i].t = "str"

\* The template of the field, when it has one, can be formatted with one
\* text: it names the text once at most.
TemplateFits ==
    field.template = PyNone
    \/ format(field.template, PyStr(<<>>), PyStr(<<>>)).ok

\* C28. Field() raises IncompatibleArgsError when neither func nor
\* constant_output is given, and raises IncompatibleArgsError when neither
\* an icon nor a template is given.
ConstructionRejectsMissingArgs ==
    frame.fn = "__init__"
        => /\ (frame.args.func = PyNone /\ frame.args.constant_output = PyNone)
                => frame.at = "raised" /\ frame.exc = "IncompatibleArgsError"
           /\ (/\ frame.args.icon = PyNone
               /\ frame.args.icons = PyNone
               /\ frame.args.template = PyNone
               /\ WellTyped(frame.args))
                => frame.at = "raised" /\ frame.exc = "IncompatibleArgsError"

\* C29. _check_bar raises InvalidBarError when the bar lacks one of
\* _buffers, _can_run, _override_queue, _stream, and returns True when it
\* has them all; run and run_threaded, which call it first, leave a bar
\* that fails the check as it was.
CheckBarRejects ==
    /\ (frame.fn = "_check_bar" /\ BarPasses)
         => frame.at = "returned" /\ frame.ret = PyBool(TRUE)
    /\ (frame.fn = "_check_bar" /\ ~BarPasses /\ frame.args = PyBool(TRUE))
         => frame.at = "raised" /\ frame.exc = "InvalidBarError"
    /\ (InRun /\ ~BarPasses)
         => /\ frame.at = "raised" /\ frame.exc = "InvalidBarError"
            /\ frame.writes = 0 /\ frame.invoked = 0
            /\ bar.buffers = <<>> /\ bar.queue = <<>> /\ bar.pending = <<>>

\* C26. A field with a constant output: run and run_threaded, on a bar
\* that passes the check, return after one write of the formatted constant
\* output to bar._buffers[name], without a call of func, whatever once,
\* run_once and the running flag are (for a template that names the text
\* once at most).
ConstantOutputWrittenOnce ==
    (InRun /\ frame.const # PyNone /\ BarPasses /\ TemplateFits)
        => /\ frame.at = "returned"
           /\ frame.invoked = 0
           /\ frame.writes = 1
           /\ LET r == format_own(field, bar, frame.const)
              IN  r.ok /\ Buffered(r.v)

\* C27. Run-once: with run_once set or once passed, no constant output
\* and no failed setup, run and run_threaded, on a bar that passes the
\* check and for a field whose icons are strings and whose template names
\* the text once at most, return after one call of func and one write of
\* its formatted result to bar._buffers[name], whatever the running flag
\* is: from the setup callback they go to the call of func, nothing
\* written yet, and from that call to their return, never to the refresh
\* loop.
RunOnceCallsOnce ==
    (/\ InRun /\ BarPasses /\ IconsGiven /\ TemplateFits
     /\ field.run_once \/ frame.once
     /\ frame.const = PyNone
     /\ frame.setup # "failed")
        => /\ frame.at \in {"setup", "first", "returned"}
           /\ frame.at = "setup" => frame.invoked = 0 /\ frame.writes = 0
           /\ frame.at = "first" => frame.invoked <= 1 /\ frame.writes = 0
           /\ frame.at = "returned"
                 => /\ frame.invoked = 1
                    /\ frame.writes = 1
                    /\ frame.last_val \in Results
                    /\ LET r == auto_format(field, bar, frame.last_val)
                       IN  r.ok /\ Buffered(r.v)

(***************************************************************************)
(* The pushback buffer, closers, Parser.parse(string), names, round trip   *)
(***************************************************************************)

\* The tokens of the sequence ts that the look-ahead does not skip.
Significant(ts) == SelectSeq(ts, LAMBDA t : t.kind \notin IgnoredKinds)

\* The cursor offsets of the tokens of ts grow from each to the next.
CursorsGrow(ts) ==
    \A i \in 1..(Len(ts) - 1) : ts[i].cursor < ts[i + 1].cursor

\* C31. The pushback buffer: in every state of the lexer the token stack
\* holds at most one token, which is no STRING, SPACE, COMMENT or NEWLINE,
\* and the tokens that successive calls of get_token returned, those the
\* look-ahead skips aside, have strictly growing cursor offsets.
PushbackInvariant ==
    /\ Len(lexer.stack) <= 1
    /\ \A i \in DOMAIN lexer.stack :
          lexer.stack[i].kind \notin IgnoredKinds \cup {"STRING"}
    /\ pc = "lexing" \/ (pc = "done" /\ mapping = PyNone /\ body = <<>>)
          => CursorsGrow(Significant(tokens))

\* Whether, from token i of toks on, a "}" comes while the innermost open
\* construct is a list, or a "]" while it is a block; open: the openers
\* not closed so far, the innermost last.
RECURSIVE MismatchedFrom(_, _, _)
MismatchedFrom(toks, i, open) ==
    LET k == toks[i].kind
        n == Len(open)
    IN  IF i > Len(toks) THEN FALSE
        ELSE IF k \in {"L_BRACKET", "L_CURLY_BRACE"}
        THEN MismatchedFrom(toks, i + 1, Append(open, k))
        ELSE IF k \notin {"R_BRACKET", "R_CURLY_BRACE"} \/ n = 0
        THEN MismatchedFrom(toks, i + 1, open)
        ELSE IF (k = "R_BRACKET") # (open[n] = "L_BRACKET") THEN TRUE
        ELSE MismatchedFrom(toks, i + 1, SubSeq(open, 1, n - 1))

\* The text lexes, and one of its closers does not match its opener.
MismatchedCloser ==
    LET Mismatched(r) == r.ok /\ MismatchedFrom(r.toks, 1, <<>>)
    IN  Mismatched(lex(text, NewLexer))

\* C32. Mismatched closer: a text in which a "}" comes while the innermost
\* open construct is a list, or a "]" while it is a block, ends the parse
\* in a syntax error, also when the closer follows a comma: parse returns
\* no list of nodes for it.
MismatchedCloserRejected ==
    (InParse /\ mapping = PyNone /\ MismatchedCloser)
        => /\ pc # "interpret"
           /\ pc = "done" => outcome.st \in {"exit", "error"}

\* C33. Parser.parse(string=s) parses the text s: the nodes it returns are
\* those of s, whatever text the parser was made on and whatever it parsed
\* before.
ParsesPassedString ==
    (string # PyNone /\ pc = "interpret")
        => LET Same(p) == p.st = "ok" /\ body = p.body
           IN  Same(parse(string.s, NewLexer))

\* C34. A key name made of letters and underscores that is no boolean
\* spelling lexes as one IDENTIFIER token, and the text `k = 1` parses to
\* {k: 1}, also for names that begin with a boolean spelling.
NamesAreIdentifiers ==
    \A k \in KeyNames :
        (InParse /\ mapping = PyNone /\ text = KeyText(k))
            => /\ LET One(r) == /\ r.ok
                                /\ Len(r.toks) = 1
                                /\ r.toks[1].kind = "IDENTIFIER"
                                /\ r.toks[1].value = k
                  IN  One(lex(k, NewLexer))
               /\ ParseDone
                    => /\ outcome.st = "ok"
                       /\ outcome.value = << <<k, PyInt(1)>> >>

\* Whether the value v is a leaf C35 admits, or a non-empty mapping of such
\* values under keys that lex as one IDENTIFIER, nested at most d deep.
RECURSIVE IsPlain(_, _)
IsPlain(v, d) ==
    LET OneName(k, r) == /\ r.ok
                         /\ Len(r.toks) = 1
                         /\ r.toks[1].kind = "IDENTIFIER"
                         /\ r.toks[1].value = k
    IN  CASE v.t = "int"  -> v.i >= 0
          [] v.t = "bool" -> TRUE
          [] v.t = "str"  ->
                \A i \in DOMAIN v.s :
                    v.s[i] \notin {"\"", "'", Backtick, "\\", NEWLINE}
          [] v.t = "dict" ->
                /\ d > 0
                /\ v.d # <<>>
                /\ \A i \in DOMAIN v.d :
                      /\ OneName(v.d[i][1], lex(v.d[i][1], NewLexer))
                      /\ IsPlain(v.d[i][2], d - 1)
          [] OTHER -> FALSE

\* C35. Restricted round trip: for a mapping nested at most three deep,
\* with no empty nested mapping, keys that lex as one IDENTIFIER and leaves
\* that are non-negative integers, booleans or strings without quote,
\* backslash or newline, Parser(as_file(M)).as_dict() ends with a mapping
\* equal to M.
RestrictedRoundTrip ==
    (pc = "done" /\ mapping # PyNone /\ mapping.d # <<>>
     /\ IsPlain(mapping, 3))
        => outcome = [st |-> "ok", value |-> mapping.d]

(***************************************************************************)
(* The refresh loops of Field.run and Field.run_threaded.                  *)
(***************************************************************************)
\* The method stands at the test of its refresh loop.
AtLoop == pc = "field" /\ InRun /\ frame.at = "loop"

\* The buffer holds the formatted form of the last stored result.
HoldsLastResult ==
    LET Held(f) == f.ok /\ Buffered(f.v)
    IN  Held(format_own(field, bar, frame.last_val))

\* C36. Buffer consistency in the refresh loop: at every loop boundary of
\* Field.run and Field.run_threaded the buffer of the field was written at
\* least once, the last stored result is a result of func, and
\* bar._buffers[name] is the formatted form of that result (for a field
\* whose icons are strings).
BufferConsistentAtLoop ==
    (AtLoop /\ IconsGiven)
           => /\ frame.writes >= 1
              /\ frame.invoked >= 1
              /\ frame.last_val \in Results
              /\ HoldsLastResult

\* run_threaded stands at the test of its loop and the flag is cleared.
StoppedAtLoop ==
    pc = "field" /\ frame.fn = "run_threaded" /\ frame.at = "loop"
    /\ ~bar.running

\* run_threaded is in a call of func on the way to the test of its loop,
\* the first call of a field that does not run once or the call of a turn,
\* and the flag is cleared.
StoppedInCall ==
    /\ pc = "field" /\ frame.fn = "run_threaded"
    /\ ~bar.running
    /\ \/ frame.at = "call"
       \/ frame.at = "first" /\ ~(field.run_once \/ frame.once)

\* C37. Stop responsiveness of a threaded field: once bar._can_run is
\* cleared, the next test of the loop of run_threaded, after a cooldown
\* step or not, is followed by no call of func, no sleep and no write:
\* the local event loop is closed and the method returns; and when the
\* flag is cleared during a call of func, that call over, the test comes,
\* the local event loop is closed and the method returns.
StopResponsive ==
    /\ [][(StoppedAtLoop /\ frame' # frame)
            => /\ frame'.at = "returned"
               /\ frame'.local_loop = "closed"
               /\ frame'.invoked = frame.invoked
               /\ frame'.count = frame.count
               /\ frame'.writes = frame.writes
               /\ bar' = bar]_vars
    /\ StoppedAtLoop ~> (frame.fn = "run_threaded" /\ frame.at = "returned"
                           /\ frame.local_loop = "closed")
    /\ StoppedInCall ~> (frame.fn = "run_threaded" /\ frame.at = "returned"
                           /\ frame.local_loop = "closed")

\* A turn of a refresh loop publishes a changed result of a field with
\* overrides_refresh while the override queue is full.
PublishesOnFullQueue ==
    /\ pc = "field" /\ InRun /\ frame.at \in {"sleep", "call"}
    /\ bar.loop
    /\ field.overrides_refresh
    /\ full(bar)
    /\ frame'.writes > frame.writes

\* C38. Full override queue: when overrides_refresh is set and the
\* override queue is full as a changed result is published, the queue
\* stays as it is, bar._buffers[name] holds the new contents and the loop
\* goes on, in run and in run_threaded; and no exception is left unhandled,
\* in the thread of the field or in the event loop of the bar.
FullQueueDropsUpdate ==
    /\ []((pc = "field" /\ bar.loop) => ~bar.unhandled)
    /\ [][PublishesOnFullQueue
            => /\ frame'.at = "loop"
               /\ bar'.queue = bar.queue
               /\ LET Held(f) ==
                          /\ f.ok
                          /\ \E i \in DOMAIN bar'.buffers :
                                bar'.buffers[i] = <<field.name, f.v>>
                  IN  Held(format_own(field', bar', frame'.last_val))]_vars

(***************************************************************************)
(* Field.from_default                                                      *)
(***************************************************************************)
\* C39. Field.from_default has no effect outside the new Field: after any
\* sequence of calls the table Field._default_fields, the mappings under
\* 'kwargs' included, is as the class was made, the mapping of overrides
\* the caller passed is as it was given, and an unknown name raises
\* DefaultFieldNotFoundError and makes no Field.
FromDefaultLeavesNoTrace ==
    (pc = "field" /\ frame.fn = "from_default")
        => /\ default_fields = Field_default_fields
           /\ overrides.left = overrides.given
           /\ frame.args.name \notin DOMAIN Field_default_fields
                 => /\ frame.at = "raised"
                    /\ frame.exc = "DefaultFieldNotFoundError"
                    /\ frame.ret = PyNone

====
